---- MODULE Spec2Model ----
(***************************************************************************)
(* Hybrid sentiment scoring of sentiment-vision: src/analyzer.py           *)
(* (score_label, score_article) and src/ai_scorer.py (_get_client,         *)
(* _parse_ai_response, score_with_ai) with the module-level session state  *)
(* of ai_scorer.py.                                                        *)
(*                                                                         *)
(* Numbers.  A sentiment score is an integer number of 1e-5 units          *)
(* (ScoreOne = 1.0), so that round(x, 4) is a real rounding to multiples   *)
(* of RoundStep.  Money is counted in units of 2.5e-7 USD, the price of    *)
(* one input token: est_cost = input_tokens * 1 + output_tokens * 5.       *)
(* A Python dict is a function whose DOMAIN is the set of keys present;    *)
(* Get(d, k, default) is d.get(k, default).                                *)
(***************************************************************************)
EXTENDS Integers, Sequences, FiniteSets, TLC

VARIABLES
    settings,       \* the settings mapping of the run (loaded once, read only)
    env,            \* process environment: "ok", "nokey" (ANTHROPIC_API_KEY unset), "nopkg" (anthropic not installed)
    client,         \* ai_scorer._client: FALSE = None, TRUE = constructed
    ai_disabled,    \* ai_scorer._ai_disabled
    ai_calls,       \* ai_scorer._session_ai_calls
    est_cost,       \* ai_scorer._session_estimated_cost (units of 2.5e-7 USD)
    authRejected,   \* history: the provider has rejected authentication in this session
    credFailed,     \* history: an attempt has failed on the missing credential in this session
    last,           \* observation of the last operation: its inputs and what it did
    tx,             \* the last call of score_text on a text: the text and what the call did
    db,             \* the tag tables: tags, article_tags, and the tag columns of articles
    tobs,           \* observation of the last tagging operation
    run,            \* a batch run over articles: its rows, its position, the database transaction
    th              \* the threads that execute score_with_ai concurrently

vars == <<settings, env, client, ai_disabled, ai_calls, est_cost,
          authRejected, credFailed, last, tx, db, tobs, run, th>>

-----------------------------------------------------------------------------
(* Bounds of the model *)

\* no operation starts a request once the session has recorded this many calls
MaxCalls == 2

-----------------------------------------------------------------------------
(* Program constants *)

ScoreOne == 100000                     \* 1.0 in score units
RoundStep == 10                        \* 0.0001, the step of round(x, 4)
DefaultPositiveThreshold == 20000      \* 0.2
DefaultNegativeThreshold == -20000     \* -0.2
DefaultMonthlyBudget == 12000000       \* 3.0 USD
InputTokenRate == 1                    \* 0.00000025 USD
OutputTokenRate == 5                   \* 0.00000125 USD

-----------------------------------------------------------------------------
(* Python helpers *)

\* d.get(k, default)
Get(d, k, default) == IF k \in DOMAIN d THEN d[k] ELSE default

\* x mod m with a result in 0..m-1 also for negative x
Mod(x, m) == ((x % m) + m) % m

\* round(x, 4): to the nearest multiple of RoundStep, a tie to the even one
Round4(x) ==
    LET r    == Mod(x, RoundStep)
        down == x - r
        up   == down + RoundStep
    IN  IF 2 * r < RoundStep THEN down
        ELSE IF 2 * r > RoundStep THEN up
        ELSE IF Mod(down \div RoundStep, 2) = 0 THEN down ELSE up

\* max(-1.0, min(1.0, score))
\* no clamping
Clamp_Identity(x) == x

Clamp(x) ==
    LET m == IF ScoreOne < x THEN ScoreOne ELSE x
    IN  IF m > -ScoreOne THEN m ELSE -ScoreOne

-----------------------------------------------------------------------------
(* Inputs: settings, articles, client contexts, outcomes of the external call *)

\* The settings of a run: the "sentiment" mapping with its thresholds and the
\* "ai_scoring" mapping with enabled and monthly_budget_usd; every key may be
\* absent.  Thresholds are numbers, in either order.
NoKeys == [k \in {} |-> 0]
Settings ==
    { [sentiment |-> NoKeys, ai_scoring |-> NoKeys],
      [sentiment |-> NoKeys, ai_scoring |-> [enabled |-> TRUE]],
      [sentiment |-> [positive_threshold |-> 30000],
       ai_scoring |-> [enabled |-> TRUE, monthly_budget_usd |-> 180]],
      [sentiment |-> [negative_threshold |-> -10000],
       ai_scoring |-> [enabled |-> TRUE, monthly_budget_usd |-> 0]],
      [sentiment |-> [positive_threshold |-> -30000, negative_threshold |-> 10000],
       ai_scoring |-> [enabled |-> TRUE, monthly_budget_usd |-> 180]],
      [sentiment |-> [positive_threshold |-> 30000, negative_threshold |-> -10000],
       ai_scoring |-> [enabled |-> FALSE, monthly_budget_usd |-> 180]] }

Envs == {"ok", "nokey", "nopkg"}

\* An article row.  content_text and title are "none" (None or ""), "blank"
\* (whitespace only) or "text"; compound is the lexicon analyzer's result for
\* the scoring text of the row.
LexicalScores == {-20001, -20000, 0, 19996, 20000, 30000}
Articles ==
    { [content_text |-> "text", title |-> "text", compound |-> v] : v \in LexicalScores }
    \cup { [content_text |-> "none", title |-> "text", compound |-> 0] }
    \cup { [content_text |-> c, title |-> t, compound |-> 0] :
             c \in {"none", "blank"}, t \in {"none", "blank"} }
    \cup { [content_text |-> "blank", title |-> "text", compound |-> 0] }

\* the rows of the direct calls of score_with_ai, which reads no lexical score
DirectArticles == { a \in Articles : a.compound = 0 /\ a.title # "blank" }

\* client_context: None, {}, or a dict whose industries value is a list of
\* strings, missing, None, or a list holding a non-string
Contexts == {"none", "empty", "strings", "no_industries", "null_industries",
             "nonstring_industries"}

\* The text of a response of the external model.  kind says what the text is:
\*   number          {"score": <number>}         value = the number
\*   numeric_string  {"score": "<number>"}       value = the number the string spells
\*   bool            {"score": true|false}       value = 1.0 or 0
\*   word_string     {"score": "high"}
\*   null            {"score": null}
\*   no_score        {"rationale": "..."}
\*   not_object      valid JSON that is no object ([..], "..", 3)
\*   invalid_json    text that is not JSON
\*   huge_int        {"score": <integer too large for a float>}
\*   no_content      the response holds no content block
\* fenced: the text is wrapped in a markdown code fence.
ModelScores == {-150000, 19996, 250000}
Bodies ==
    { [kind |-> "number", value |-> v, fenced |-> FALSE] : v \in ModelScores }
    \cup { [kind |-> "number", value |-> 60000, fenced |-> TRUE],
           [kind |-> "numeric_string", value |-> 50000, fenced |-> FALSE],
           [kind |-> "bool", value |-> ScoreOne, fenced |-> FALSE] }
    \cup { [kind |-> k, value |-> 0, fenced |-> FALSE] :
             k \in {"word_string", "null", "no_score", "not_object", "invalid_json",
                    "huge_int", "no_content"} }

\* (input_tokens, output_tokens) of a response, and the response texts that
\* come with the large usage
SmallUsage == <<1, 1>>
LargeUsage == <<200000, 40000>>
LargeBodies == { b \in Bodies : b.kind \in {"invalid_json"} \/ b.value = 19996 }

NoBody == [kind |-> "none", value |-> 0, fenced |-> FALSE]
NoApi  == [kind |-> "none", input_tokens |-> 0, output_tokens |-> 0, body |-> NoBody]

\* what client.messages.create does: raise one of the provider's errors, or respond
ApiOutcomes ==
    { [kind |-> k, input_tokens |-> 0, output_tokens |-> 0, body |-> NoBody] :
        k \in {"AuthenticationError", "RateLimitError", "APIConnectionError", "OtherError"} }
    \cup { [kind |-> "response", input_tokens |-> SmallUsage[1],
             output_tokens |-> SmallUsage[2], body |-> b] : b \in Bodies }
    \cup { [kind |-> "response", input_tokens |-> LargeUsage[1],
             output_tokens |-> LargeUsage[2], body |-> b] : b \in LargeBodies }

-----------------------------------------------------------------------------
(* analyzer.py *)

\* text = article_row.get("content_text") or article_row.get("title") or ""
ScoringText(a) ==
    IF a.content_text # "none" THEN a.content_text
    ELSE IF a.title # "none" THEN a.title
    ELSE "none"

\* a variant that omits strip(): whitespace counts as text
IsBlank_NoStrip(text) == text = "none"

\* not text.strip()
IsBlank(text) == text \in {"none", "blank"}

\* score_text(text): the value it returns for the scoring text of the row, the
\* analyzer's compound of a text of at most 280 characters or the mean of the
\* sentence compounds of a longer one; the row carries it as `compound`
score_text(a) == a.compound

\* score_label with the positive threshold excluded (score > pos_threshold)
score_label_StrictPositive(score, s) ==
    LET pos_threshold == Get(s.sentiment, "positive_threshold", DefaultPositiveThreshold)
        neg_threshold == Get(s.sentiment, "negative_threshold", DefaultNegativeThreshold)
    IN  IF score > pos_threshold THEN "positive"
        ELSE IF score < neg_threshold THEN "negative"
        ELSE "neutral"

score_label(score, s) ==
    LET thresholds    == s.sentiment
        pos_threshold == Get(thresholds, "positive_threshold", DefaultPositiveThreshold)
        neg_threshold == Get(thresholds, "negative_threshold", DefaultNegativeThreshold)
    IN  IF score >= pos_threshold THEN "positive"
        ELSE IF score < neg_threshold THEN "negative"
        ELSE "neutral"

\* in_neutral_zone with the positive threshold included
in_neutral_zone_Inclusive(vader_score, s) ==
    LET pos_threshold == Get(s.sentiment, "positive_threshold", DefaultPositiveThreshold)
        neg_threshold == Get(s.sentiment, "negative_threshold", DefaultNegativeThreshold)
    IN  neg_threshold <= vader_score /\ vader_score <= pos_threshold

\* in_neutral_zone = neg_threshold <= vader_score < pos_threshold
in_neutral_zone(vader_score, s) ==
    LET pos_threshold == Get(s.sentiment, "positive_threshold", DefaultPositiveThreshold)
        neg_threshold == Get(s.sentiment, "negative_threshold", DefaultNegativeThreshold)
    IN  neg_threshold <= vader_score /\ vader_score < pos_threshold

\* ai_cfg.get("enabled", True): an absent key read as enabled
AiEnabled_DefaultOn(s) == Get(s.ai_scoring, "enabled", TRUE)

\* bool(ai_cfg.get("enabled"))
AiEnabled(s) == Get(s.ai_scoring, "enabled", FALSE)

\* bool(client_context)
Truthy(ctx) == ctx \notin {"none", "empty"}

\* in_neutral_zone and ai_cfg.get("enabled") and client_context
Escalates(vader_score, s, ctx) ==
    in_neutral_zone(vader_score, s) /\ AiEnabled(s) /\ Truthy(ctx)

-----------------------------------------------------------------------------
(* Strings.  A Python str is a sequence of one-character strings. *)

UpperLetters == <<"A", "B", "C", "D", "E", "F", "G", "H", "I", "J", "K", "L", "M", "N", "O", "P", "Q", "R", "S", "T", "U", "V", "W", "X", "Y", "Z">>
LowerLetters == <<"a", "b", "c", "d", "e", "f", "g", "h", "i", "j", "k", "l", "m", "n", "o", "p", "q", "r", "s", "t", "u", "v", "w", "x", "y", "z">>
Digits == {"0", "1", "2", "3", "4", "5", "6", "7", "8", "9"}

Range(f) == { f[i] : i \in DOMAIN f }

\* [A-Z]
IsUpper(c) == c \in Range(UpperLetters)

\* \s
IsSpace(c) == c \in {" ", "\n", "\t"}

\* \w
IsWordChar(c) == c \in Range(UpperLetters) \cup Range(LowerLetters) \cup Digits \cup {"_"}

\* c.lower()
LowerChar(c) ==
    IF IsUpper(c) THEN LowerLetters[CHOOSE i \in DOMAIN UpperLetters : UpperLetters[i] = c]
    ELSE c

\* str.lower()
Lower(str) == [i \in DOMAIN str |-> LowerChar(str[i])]

\* the indices of the characters of str that str.strip() keeps
Kept(str) == { i \in DOMAIN str : ~IsSpace(str[i]) }
Min(S) == CHOOSE x \in S : \A y \in S : x <= y
Max(S) == CHOOSE x \in S : \A y \in S : x >= y

\* str.strip()
Strip(str) == IF Kept(str) = {} THEN <<>> ELSE SubSeq(str, Min(Kept(str)), Max(Kept(str)))

\* str.rstrip()
RStrip(str) == IF Kept(str) = {} THEN <<>> ELSE SubSeq(str, 1, Max(Kept(str)))

\* str.rstrip(".")
RStripDots(str) ==
    LET keep == { i \in DOMAIN str : str[i] # "." }
    IN  IF keep = {} THEN <<>> ELSE SubSeq(str, 1, Max(keep))

\* str.rsplit(None, 1)[-1] of a str that holds a non-space character
LastWord(str) ==
    LET e == Max(Kept(str))
        b == Max({ i \in 0..e : i = 0 \/ IsSpace(str[i]) })
    IN  SubSeq(str, b + 1, e)

RECURSIVE WordsFrom(_, _)
\* the words of str that start at the given indexes
WordsFrom(str, starts) ==
    IF starts = {} THEN <<>>
    ELSE LET b == Min(starts)
             e == Min({ k \in b..Len(str) : k = Len(str) \/ IsSpace(str[k + 1]) })
         IN  <<SubSeq(str, b, e)>> \o WordsFrom(str, starts \ {b})

\* str.split()
Split(str) ==
    WordsFrom(str, { i \in DOMAIN str : ~IsSpace(str[i]) /\ (i = 1 \/ IsSpace(str[i - 1])) })

RECURSIVE Join(_)
\* " ".join(pieces)
Join(pieces) ==
    IF pieces = <<>> THEN <<>>
    ELSE IF Len(pieces) = 1 THEN pieces[1]
    ELSE pieces[1] \o <<" ">> \o Join(Tail(pieces))

\* sub in str
Contains(str, sub) ==
    \E i \in 1..(Len(str) - Len(sub) + 1) : SubSeq(str, i, i + Len(sub) - 1) = sub

-----------------------------------------------------------------------------
(* analyzer._split_sentences and analyzer.score_text *)

ShortTextMax == 280        \* len(text) <= 280
MinSentenceLen == 10       \* len(sentence) < 10
Significance == 5000       \* abs(s) > 0.05

_ABBREVS ==
    { <<"m", "r">>,
      <<"m", "r", "s">>,
      <<"m", "s">>,
      <<"d", "r">>,
      <<"j", "r">>,
      <<"s", "r">>,
      <<"p", "r", "o", "f">>,
      <<"v", "s">>,
      <<"e", "t", "c">>,
      <<"i", "n", "c">>,
      <<"l", "t", "d">>,
      <<"c", "o", "r", "p">>,
      <<"c", "o">>,
      <<"g", "e", "n">>,
      <<"g", "o", "v">>,
      <<"s", "g", "t">>,
      <<"c", "o", "l">>,
      <<"d", "e", "p", "t">>,
      <<"u", "n", "i", "v">>,
      <<"a", "p", "p", "r", "o", "x">>,
      <<"e", "s", "t">>,
      <<"v", "o", "l">>,
      <<"n", "o">>,
      <<"s", "t">>,
      <<"a", "v", "e">> }

\* The lexicon analyzer (vaderSentiment): polarity_scores(str)["compound"], a
\* value in [-1.0, 1.0] that is a function of the str.  Here every "g" of
\* the str weighs +0.03 and every "b" -0.03.
Count(str, c) == Cardinality({ i \in DOMAIN str : str[i] = c })
Compound(str) == Clamp(3000 * (Count(str, "g") - Count(str, "b")))

\* re.split(r"(?<=[.!?])\s+(?=[A-Z])", text): the separators are the maximal
\* runs of whitespace b..e that follow one of . ! ? and precede an uppercase
\* letter
RunEnd(text, b) ==
    Min({ k \in b..(Len(text) + 1) : k = Len(text) + 1 \/ ~IsSpace(text[k]) }) - 1
Separators(text) ==
    { <<b, RunEnd(text, b)>> : b \in
        { b \in 2..Len(text) :
            /\ text[b - 1] \in {".", "!", "?"}
            /\ IsSpace(text[b])
            /\ RunEnd(text, b) < Len(text)
            /\ IsUpper(text[RunEnd(text, b) + 1]) } }

RECURSIVE PartsFrom(_, _, _)
\* the parts of text from index `from`, given the separators not yet passed
PartsFrom(text, from, seps) ==
    IF seps = {} THEN << SubSeq(text, from, Len(text)) >>
    ELSE LET be == CHOOSE x \in seps : \A y \in seps : x[1] <= y[1]
         IN  << SubSeq(text, from, be[1] - 1) >>
               \o PartsFrom(text, be[2] + 1, { y \in seps : y[1] > be[2] })

raw_parts(text) == PartsFrom(text, 1, Separators(text))

\* the buffer ends with an abbreviation and a period: keep buffering
\* (evaluated only when buffer.rstrip(".") holds a non-space character)
EndsWithAbbrev(buffer) ==
    LET last_word == Lower(LastWord(RStripDots(buffer)))
    IN  /\ RStrip(buffer) # <<>>
        /\ RStrip(buffer)[Len(RStrip(buffer))] = "."
        /\ last_word \in _ABBREVS

\* buffer.rstrip(".").rsplit(None, 1)[-1] raises IndexError: the buffer
\* without its trailing periods is not empty and holds only whitespace
LastWordRaises(buffer) == RStripDots(buffer) # <<>> /\ Kept(RStripDots(buffer)) = {}

RECURSIVE SplitLoop(_, _, _, _)
\* the for loop of _split_sentences over parts[i..], with the sentences and
\* the buffer so far; [raised, sentences]
SplitLoop(parts, i, sentences, buffer) ==
    IF i > Len(parts)
      THEN [raised |-> FALSE,
            sentences |-> IF buffer # <<>> THEN Append(sentences, Strip(buffer))
                          ELSE sentences]
    ELSE LET buf == IF buffer # <<>> THEN buffer \o <<" ">> \o parts[i] ELSE parts[i]
         IN  IF LastWordRaises(buf) THEN [raised |-> TRUE, sentences |-> <<>>]
             ELSE IF RStripDots(buf) # <<>> /\ EndsWithAbbrev(buf)
               THEN SplitLoop(parts, i + 1, sentences, buf)
             ELSE SplitLoop(parts, i + 1, Append(sentences, Strip(buf)), <<>>)

\* _split_sentences(text): [raised, sentences]
_split_sentences(text) ==
    LET r == SplitLoop(raw_parts(text), 1, <<>>, <<>>)
    IN  [raised |-> r.raised, sentences |-> SelectSeq(r.sentences, LAMBDA x : x # <<>>)]

RECURSIVE Sum(_)
Sum(q) == IF q = <<>> THEN 0 ELSE q[1] + Sum(Tail(q))

Abs(x) == IF x < 0 THEN -x ELSE x

\* sum(q) / len(q), to the score unit below
Mean(q) == Sum(q) \div Len(q)

IsSignificant(x) == Abs(x) > Significance

\* score_text(text) on the characters of the text: [raised, value]
ScoreText(text) ==
    IF Len(text) <= ShortTextMax THEN [raised |-> FALSE, value |-> Compound(text)]
    ELSE LET sp == _split_sentences(text)
         IN  IF sp.raised THEN [raised |-> TRUE, value |-> 0]
             ELSE IF sp.sentences = <<>> THEN [raised |-> FALSE, value |-> Compound(text)]
             ELSE LET long == SelectSeq(sp.sentences, LAMBDA x : ~(Len(x) < MinSentenceLen))
                      scores == [i \in DOMAIN long |-> Compound(long[i])]
                      significant == SelectSeq(scores, IsSignificant)
                  IN  IF scores = <<>> THEN [raised |-> FALSE, value |-> 0]
                      ELSE IF significant # <<>>
                        THEN [raised |-> FALSE, value |-> Mean(significant)]
                      ELSE [raised |-> FALSE, value |-> Mean(scores)]

-----------------------------------------------------------------------------
(* tagger.py: load_tags_for_client, match_tags_keyword, match_tags_ai,       *)
(* tag_article, over the tables tags and article_tags and the columns        *)
(* esg_tags and tags of articles (storage.py).  A tag row is a record; its   *)
(* name is a string, its keywords are strs; NULL client_id is NoClient; a    *)
(* NULL column is Null and a JSON column holds the list it was dumped from.  *)

NoClient == 0
Null == <<>>

\* a tag row with another client's scope
Applicable_AnyClient(tag, client_id) ==
    tag.enabled /\ (tag.scope = "global" \/ tag.scope = "client")

\* WHERE enabled = 1 AND (scope = 'global' OR (scope = 'client' AND client_id = %s))
Applicable(tag, client_id) ==
    tag.enabled /\ (tag.scope = "global"
                    \/ (tag.scope = "client" /\ tag.client_id = client_id))

\* ORDER BY tag_type, name: the ENUM tag_type sorts by its index ('esg',
\* 'custom'), the name by the collation; the names of the catalog in order
SortedNames == <<"AI", "Energy", "Mine", "Old", "Rival", "Smart">>
TypeRank(tag_type) == IF tag_type = "esg" THEN 1 ELSE 2
NameRank(name) == CHOOSE i \in DOMAIN SortedNames : SortedNames[i] = name
Before(t1, t2) ==
    \/ TypeRank(t1.tag_type) < TypeRank(t2.tag_type)
    \/ /\ TypeRank(t1.tag_type) = TypeRank(t2.tag_type)
       /\ NameRank(t1.name) < NameRank(t2.name)

RECURSIVE Sorted(_)
\* the rows of a set in the order of ORDER BY
Sorted(rows) ==
    IF rows = {} THEN <<>>
    ELSE LET first == CHOOSE r \in rows : \A o \in rows \ {r} : Before(r, o)
         IN  <<first>> \o Sorted(rows \ {first})

\* load_tags_for_client(conn, client_id)
load_tags_for_client(tags, client_id) ==
    Sorted({ tags[i] : i \in { j \in DOMAIN tags : Applicable(tags[j], client_id) } })

\* \b at position p of str (between str[p-1] and str[p])
WordAt(str, k) == k \in DOMAIN str /\ IsWordChar(str[k])
Boundary(str, p) == WordAt(str, p - 1) # WordAt(str, p)

\* re.search(r"\b" + re.escape(kw) + r"\b", str)
WordSearch(kw, str) ==
    \E i \in 1..(Len(str) - Len(kw) + 1) :
        /\ SubSeq(str, i, i + Len(kw) - 1) = kw
        /\ Boundary(str, i)
        /\ Boundary(str, i + Len(kw))

ShortKeywordMax == 3

\* every keyword is searched as a substring
KeywordMatches_Substring(kw_lower, text_lower) == Contains(text_lower, kw_lower)

\* the test of one keyword: word-boundary search up to 3 characters, else substring
KeywordMatches(kw_lower, text_lower) ==
    IF Len(kw_lower) <= ShortKeywordMax THEN WordSearch(kw_lower, text_lower)
    ELSE Contains(text_lower, kw_lower)

\* the indexes of the keywords of the tag that are not blank and match
MatchingIndexes(tag, text_lower) ==
    { k \in DOMAIN tag.keywords :
        LET kw_lower == Strip(Lower(tag.keywords[k]))
        IN  kw_lower # <<>> /\ KeywordMatches(kw_lower, text_lower) }

\* the loop over the keywords goes on after a match: the last match is kept
StopAt_Last(indexes) == Max(indexes)

\* break at the first matching keyword
StopAt(indexes) == Min(indexes)

\* the match that is appended for a tag: its first matching keyword
KeywordMatch(tag, text_lower) ==
    [tag_id |-> tag.id, tag_name |-> tag.name, tag_type |-> tag.tag_type,
     matched_keyword |-> tag.keywords[StopAt(MatchingIndexes(tag, text_lower))],
     confidence |-> 1, match_method |-> "keyword"]

\* match_tags_keyword(text, tags).  The lowercased text and the tags that
\* match are each computed once and bound.
match_tags_keyword(text, tags) ==
    IF text = <<>> THEN <<>>
    ELSE CHOOSE matches \in
           UNION { { [i \in DOMAIN hit |-> KeywordMatch(hit[i], text_lower)] :
                       hit \in {SelectSeq(tags, LAMBDA t :
                                            /\ t.match_method = "keyword"
                                            /\ MatchingIndexes(t, text_lower) # {})} } :
                   text_lower \in {Lower(text)} } : TRUE

\* match_tags_ai(text, tags)
match_tags_ai(text, tags) == <<>>

RECURSIVE MergeLoop_KeepLater(_, _, _)
\* a later match of a tag replaces the earlier one also on a tie
MergeLoop_KeepLater(ms, i, seen) ==
    IF i > Len(ms) THEN seen
    ELSE LET m == ms[i]
             at == { j \in DOMAIN seen : seen[j].tag_id = m.tag_id }
         IN  IF at = {} THEN MergeLoop_KeepLater(ms, i + 1, Append(seen, m))
             ELSE IF m.confidence >= seen[Min(at)].confidence
               THEN MergeLoop_KeepLater(ms, i + 1, [seen EXCEPT ![Min(at)] = m])
             ELSE MergeLoop_KeepLater(ms, i + 1, seen)

RECURSIVE MergeLoop(_, _, _)
\* the loop that fills `seen`, kept in insertion order: a later match of a tag
\* replaces the earlier one only with a higher confidence
MergeLoop(ms, i, seen) ==
    IF i > Len(ms) THEN seen
    ELSE LET m == ms[i]
             at == { j \in DOMAIN seen : seen[j].tag_id = m.tag_id }
         IN  IF at = {} THEN MergeLoop(ms, i + 1, Append(seen, m))
             ELSE IF m.confidence > seen[Min(at)].confidence
               THEN MergeLoop(ms, i + 1, [seen EXCEPT ![Min(at)] = m])
             ELSE MergeLoop(ms, i + 1, seen)

\* the early return is missing
NothingToWrite_Never(all_matches) == FALSE

\* if not all_matches: return []
NothingToWrite(all_matches) == all_matches = <<>>

\* INSERT IGNORE INTO article_tags under UNIQUE (article_id, tag_id)
InsertIgnore(rows, row) ==
    IF \E r \in rows : r.article_id = row.article_id /\ r.tag_id = row.tag_id
      THEN rows ELSE rows \cup {row}

RECURSIVE InsertAll(_, _, _, _)
InsertAll(rows, article_id, ms, i) ==
    IF i > Len(ms) THEN rows
    ELSE InsertAll(InsertIgnore(rows, [article_id |-> article_id, tag_id |-> ms[i].tag_id,
                                       confidence |-> ms[i].confidence,
                                       matched_keyword |-> ms[i].matched_keyword,
                                       match_method |-> ms[i].match_method]),
                   article_id, ms, i + 1)

\* json.dumps(names) if names else None
JsonOrNull(names) == IF names # <<>> THEN names ELSE Null

\* the names are added to the columns
UpdateArticle_Append(columns, article_id, esg_tags, custom_tags) ==
    [columns EXCEPT ![article_id] = [esg_tags |-> @.esg_tags \o esg_tags,
                                     tags |-> @.tags \o custom_tags]]

\* UPDATE articles SET esg_tags = %s, tags = %s WHERE id = %s
UpdateArticle(columns, article_id, esg_tags, custom_tags) ==
    [columns EXCEPT ![article_id] = [esg_tags |-> JsonOrNull(esg_tags),
                                     tags |-> JsonOrNull(custom_tags)]]

TagNames(ms) == [i \in DOMAIN ms |-> ms[i].tag_name]

\* tag_article from the merged list on: the tables after it, the list it
\* returns, the ids of the tags it loaded and the keyword matches
WriteMatches(d, article_id, tags, matches, all_matches) ==
    IF tags = <<>>
      THEN [db |-> d, ret |-> <<>>, loaded |-> <<>>, matches |-> <<>>]
    ELSE IF NothingToWrite(all_matches)
      THEN [db |-> d, ret |-> <<>>, loaded |-> [i \in DOMAIN tags |-> tags[i].id],
            matches |-> matches]
    ELSE [db |-> [d EXCEPT
                    !.article_tags = InsertAll(@, article_id, all_matches, 1),
                    !.columns = UpdateArticle(@, article_id,
                        TagNames(SelectSeq(all_matches, LAMBDA m : m.tag_type = "esg")),
                        TagNames(SelectSeq(all_matches, LAMBDA m : m.tag_type = "custom")))],
          ret |-> TagNames(all_matches), loaded |-> [i \in DOMAIN tags |-> tags[i].id],
          matches |-> matches]

\* tag_article(conn, article_id, client_id, text).  The loaded tags, the
\* keyword matches and the merged list are each computed once and bound.
tag_article(d, article_id, client_id, text) ==
    CHOOSE out \in
      UNION { UNION { { WriteMatches(d, article_id, tags, matches, all_matches) :
                          all_matches \in
                            {MergeLoop(matches \o match_tags_ai(text,
                                         SelectSeq(tags, LAMBDA t : t.match_method = "ai")),
                                       1, <<>>)} } :
                      matches \in {match_tags_keyword(text, tags)} } :
              tags \in {load_tags_for_client(d.tags, client_id)} } : TRUE

-----------------------------------------------------------------------------
(* ai_scorer.py *)

\* re.sub of the code fences, strip
StripFences(body) == [body EXCEPT !.fenced = FALSE]

ParseNone  == [tag |-> "none", score |-> 0, label |-> "none"]
ParseRaise == [tag |-> "raise", score |-> 0, label |-> "none"]

\* json.loads(cleaned) raises JSONDecodeError
JsonFails(cleaned) == cleaned.fenced \/ cleaned.kind = "invalid_json"

\* float(data["score"]) returns a float: a number, a string spelling one, a bool
FloatAccepts(cleaned) == cleaned.kind \in {"number", "numeric_string", "bool"}

\* _parse_ai_response: (round(score, 4), label), None, or an exception that
\* its except clause does not name (OverflowError of float())
_parse_ai_response(body, s) ==
    LET cleaned == StripFences(body)
    IN  IF JsonFails(cleaned) THEN ParseNone
        ELSE IF cleaned.kind = "huge_int" THEN ParseRaise
        ELSE IF ~FloatAccepts(cleaned) THEN ParseNone
        ELSE LET score == Clamp(cleaned.value)
             IN  [tag |-> "ok", score |-> Round4(score), label |-> score_label(score, s)]

\* the test of the length with < for <=
_truncate_for_api_Strict(text, max_words) ==
    IF Len(Split(text)) < max_words THEN text
    ELSE Join(SubSeq(Split(text), 1, max_words)) \o <<".", ".", ".">>

\* _truncate_for_api(text, max_words), max_words >= 0
_truncate_for_api(text, max_words) ==
    LET words == Split(text)
    IN  IF Len(words) <= max_words THEN text
        ELSE Join(SubSeq(words, 1, max_words)) \o <<".", ".", ".">>

\* The parts of user_message that come from the article row a = [title,
\* content_text] (an empty str stands for None and for ""): the title line and
\* the truncated scoring text.  sent is FALSE when score_with_ai returns
\* before building the message because the scoring text is blank.
user_message(a, max_words) ==
    LET text == IF a.content_text # <<>> THEN a.content_text ELSE a.title
    IN  IF Strip(text) = <<>>
          THEN [sent |-> FALSE, text |-> text, title |-> <<>>, truncated |-> <<>>]
        ELSE [sent |-> TRUE, text |-> text, title |-> a.title,
              truncated |-> _truncate_for_api(text, max_words)]

\* the budget check with > for >=
BudgetReached_Strict(cost, s) ==
    cost * 30 > Get(s.ai_scoring, "monthly_budget_usd", DefaultMonthlyBudget)

\* _session_estimated_cost >= monthly_budget / 30
BudgetReached(cost, s) ==
    cost * 30 >= Get(s.ai_scoring, "monthly_budget_usd", DefaultMonthlyBudget)

\* est_cost without the output tokens
EstCost_InputOnly(api) == api.input_tokens * InputTokenRate

\* est_cost of one response
EstCost(api) == api.input_tokens * InputTokenRate + api.output_tokens * OutputTokenRate

\* ', '.join(industries) succeeds
Joinable(ctx) == ctx \in {"empty", "strings", "no_industries"}

\* the except clauses with AuthenticationError handled like a rate limit
DisablesSession_ImportOnly(err) == err \in {"ImportError"}

\* the except clauses of score_with_ai: which exception sets _ai_disabled
DisablesSession(err) == err \in {"ImportError", "AuthenticationError"}

NoneRet == [method |-> "none", score |-> 0, label |-> "none"]

\* the flag follows the last exception only
Outcome_FlagNotSticky(g, ret, raised, tried, called, err) ==
    [g |-> [g EXCEPT !.ai_disabled = DisablesSession(err)],
     ret |-> ret, raised |-> raised, tried |-> tried, called |-> called, err |-> err]

\* What one call of score_with_ai does from the session state g =
\* [client, ai_disabled, ai_calls, est_cost]: the state after it, what it
\* returns (ret; NoneRet is None), whether it raised to its caller, whether it
\* tried to construct the client, whether it sent the request, and the
\* exception its try block caught ("" when none).
Outcome(g, ret, raised, tried, called, err) ==
    [g |-> [g EXCEPT !.ai_disabled = g.ai_disabled \/ DisablesSession(err)],
     ret |-> ret, raised |-> raised, tried |-> tried, called |-> called, err |-> err]

score_with_ai(g, a, ctx, s, e, api) ==
    IF g.ai_disabled THEN Outcome(g, NoneRet, FALSE, FALSE, FALSE, "")
    ELSE IF BudgetReached(g.est_cost, s) THEN Outcome(g, NoneRet, FALSE, FALSE, FALSE, "")
    ELSE IF IsBlank(ScoringText(a)) THEN Outcome(g, NoneRet, FALSE, FALSE, FALSE, "")
    ELSE IF ctx = "none" THEN Outcome(g, NoneRet, TRUE, FALSE, FALSE, "AttributeError")
    ELSE IF ~Joinable(ctx) THEN Outcome(g, NoneRet, TRUE, FALSE, FALSE, "TypeError")
    ELSE IF e = "nopkg" THEN Outcome(g, NoneRet, FALSE, FALSE, FALSE, "ImportError")
    ELSE IF ~g.client /\ e = "nokey" THEN Outcome(g, NoneRet, FALSE, TRUE, FALSE, "ValueError")
    ELSE LET g1 == [g EXCEPT !.client = TRUE]
             tried == ~g.client
         IN  IF api.kind # "response" THEN Outcome(g1, NoneRet, FALSE, tried, TRUE, api.kind)
             ELSE LET g2 == [g1 EXCEPT !.ai_calls = @ + 1, !.est_cost = @ + EstCost(api)]
                      parsed == _parse_ai_response(api.body, s)
                  IN  IF api.body.kind = "no_content"
                        THEN Outcome(g2, NoneRet, FALSE, tried, TRUE, "IndexError")
                      ELSE IF parsed.tag = "raise"
                        THEN Outcome(g2, NoneRet, FALSE, tried, TRUE, "OverflowError")
                      ELSE IF parsed.tag = "none"
                        THEN Outcome(g2, NoneRet, FALSE, tried, TRUE, "")
                      ELSE Outcome(g2, [method |-> "ai", score |-> parsed.score,
                                        label |-> parsed.label], FALSE, tried, TRUE, "")

-----------------------------------------------------------------------------
(* analyzer.score_article *)

\* What one call of score_article does: the result dict it returns (score,
\* label, method), or raised = TRUE when an exception of score_with_ai
\* escapes it (it catches ImportError only); scored says that it ran the
\* lexical scorer score_text.
score_article(g, a, ctx, s, e, api) ==
    IF IsBlank(ScoringText(a))
      THEN [g |-> g, score |-> 0, label |-> "neutral", method |-> "vader",
            raised |-> FALSE, tried |-> FALSE, called |-> FALSE, err |-> "",
            scored |-> FALSE]
    ELSE LET vader_score == score_text(a)
             vader_label == score_label(vader_score, s)
         IN  IF ~Escalates(vader_score, s, ctx)
               THEN [g |-> g, score |-> Round4(vader_score), label |-> vader_label,
                     method |-> "vader", raised |-> FALSE, tried |-> FALSE,
                     called |-> FALSE, err |-> "", scored |-> TRUE]
             ELSE LET r == score_with_ai(g, a, ctx, s, e, api)
                  IN  IF r.raised
                        THEN [g |-> r.g, score |-> 0, label |-> "none", method |-> "none",
                              raised |-> TRUE, tried |-> r.tried, called |-> r.called,
                              err |-> r.err, scored |-> TRUE]
                      ELSE IF r.ret # NoneRet
                        THEN [g |-> r.g, score |-> Round4(r.ret.score), label |-> r.ret.label,
                              method |-> "ai", raised |-> FALSE, tried |-> r.tried,
                              called |-> r.called, err |-> r.err, scored |-> TRUE]
                      ELSE [g |-> r.g, score |-> Round4(vader_score), label |-> vader_label,
                            method |-> "vader", raised |-> FALSE, tried |-> r.tried,
                            called |-> r.called, err |-> r.err, scored |-> TRUE]

-----------------------------------------------------------------------------
(* The session *)

Session == [client |-> client, ai_disabled |-> ai_disabled,
            ai_calls |-> ai_calls, est_cost |-> est_cost]

NoArticle == [content_text |-> "none", title |-> "none", compound |-> 0]

\* nothing scored by score_text, no tag table, nothing tagged
NoTx == [op |-> "none", called |-> FALSE, head |-> <<>>, chunks |-> <<>>, tail |-> <<>>,
         raised |-> FALSE, value |-> 0, sentences |-> <<>>]
EmptyDb == [tags |-> <<>>, article_tags |-> {}, columns |-> <<>>]
NoTobs == [op |-> "none"]
NoRun == [op |-> "none"]
NoThreads == <<>>

Init ==
    /\ settings \in Settings
    /\ env \in Envs
    /\ tx = NoTx
    /\ db = EmptyDb
    /\ tobs = NoTobs
    /\ run = NoRun
    /\ th = NoThreads
    /\ client = FALSE
    /\ ai_disabled = FALSE
    /\ ai_calls = 0
    /\ est_cost = 0
    /\ authRejected = FALSE
    /\ credFailed = FALSE
    /\ last = [op |-> "start", article |-> NoArticle, ctx |-> "none", api |-> NoApi,
               score |-> 0, label |-> "none", method |-> "none",
               raised |-> FALSE, tried |-> FALSE, called |-> FALSE, err |-> "",
               scored |-> FALSE]

\* the session state after an operation with outcome r
Commit(r, api) ==
    /\ r.called => ai_calls < MaxCalls
    /\ client' = r.g.client
    /\ ai_disabled' = r.g.ai_disabled
    /\ ai_calls' = r.g.ai_calls
    /\ est_cost' = r.g.est_cost
    /\ authRejected' = (authRejected \/ (r.called /\ api.kind = "AuthenticationError"))
    /\ credFailed' = (credFailed \/ r.err = "ValueError")
    /\ UNCHANGED <<settings, env, tx, db, tobs, run, th>>

\* the external call has an outcome only when the request is sent
ApiChoices(called) == IF called THEN ApiOutcomes ELSE {NoApi}

\* one iteration of the batch loop of analyze_unscored, or any other caller:
\* score_article(row, settings, client_context)
ScoreArticle ==
    \E a \in Articles, ctx \in Contexts :
      \E api \in ApiChoices(score_article(Session, a, ctx, settings, env, NoApi).called) :
        \E r \in {score_article(Session, a, ctx, settings, env, api)} :
            /\ Commit(r, api)
            /\ last' = [op |-> "score_article", article |-> a, ctx |-> ctx,
                        api |-> api,
                        score |-> r.score, label |-> r.label, method |-> r.method,
                        raised |-> r.raised, tried |-> r.tried, called |-> r.called,
                        err |-> r.err, scored |-> r.scored]

\* a direct call score_with_ai(row, client_context, settings)
ScoreWithAi ==
    \E a \in DirectArticles, ctx \in Contexts :
      \E api \in ApiChoices(score_with_ai(Session, a, ctx, settings, env, NoApi).called) :
        \E r \in {score_with_ai(Session, a, ctx, settings, env, api)} :
            /\ Commit(r, api)
            /\ last' = [op |-> "score_with_ai", article |-> a, ctx |-> ctx,
                        api |-> api,
                        score |-> r.ret.score, label |-> r.ret.label, method |-> r.ret.method,
                        raised |-> r.raised, tried |-> r.tried, called |-> r.called,
                        err |-> r.err, scored |-> FALSE]

Next == ScoreArticle \/ ScoreWithAi

Spec == Init /\ [][Next]_vars

-----------------------------------------------------------------------------
(* Calls of score_text on texts *)

MaxChunks == 2

Rep(c, n) == [i \in 1..n |-> c]

\* The texts are built of these pieces, joined by single spaces:
\*   StrongPos  a sentence of compound  0.3      StrongNeg  one of compound -0.3
\*   Weak       a sentence of compound  0.03, below the significance level
\*   Short      a sentence of fewer than 10 characters
\*   Abbr       an abbreviation with its period, which suppresses a split
\*   LowerCase  words that start in lower case, before which no split happens
\*   Filler     a neutral sentence that takes the text beyond 280 characters
StrongPos == <<"A">> \o Rep("g", 10) \o <<".">>
StrongNeg == <<"T">> \o Rep("b", 10) \o <<"!">>
Weak      == <<"H", "g">> \o Rep("x", 9) \o <<".">>
Short     == <<"O", "g", ".">>
Abbr      == <<"D", "r", ".">>
LowerCase == <<"b", "u", "t", " ">> \o Rep("g", 3) \o <<".">>
Filler    == <<"N">> \o Rep("x", ShortTextMax) \o <<"?">>

Chunks == {StrongPos, StrongNeg, Weak, Short, Abbr, LowerCase}

\* what a text starts with: nothing, whitespace and a period, or whitespace
Heads == { <<>>, <<" ", ".">>, <<" ", " ">> }
Tails == { <<>>, Filler }

ChunkSeqs == UNION { [1..n -> Chunks] : n \in 0..MaxChunks }

\* the text with the given head, chunks and tail
TextOf(head, chunks, tail) ==
    Join(SelectSeq(<<head>> \o chunks \o <<tail>>, LAMBDA x : x # <<>>))

TextInit ==
    /\ settings = [sentiment |-> NoKeys, ai_scoring |-> NoKeys]
    /\ env = "ok"
    /\ client = FALSE
    /\ ai_disabled = FALSE
    /\ ai_calls = 0
    /\ est_cost = 0
    /\ authRejected = FALSE
    /\ credFailed = FALSE
    /\ last = [op |-> "start", article |-> NoArticle, ctx |-> "none", api |-> NoApi,
               score |-> 0, label |-> "none", method |-> "none",
               raised |-> FALSE, tried |-> FALSE, called |-> FALSE, err |-> "",
               scored |-> FALSE]
    /\ tx = NoTx
    /\ db = EmptyDb
    /\ tobs = NoTobs
    /\ run = NoRun
    /\ th = NoThreads

\* a call score_text(text)
ScoreTextCall ==
    \E head \in Heads, chunks \in ChunkSeqs, tail \in Tails :
      \E r \in {ScoreText(TextOf(head, chunks, tail))} :
        /\ tx' = [op |-> "score_text", called |-> TRUE,
                  head |-> head, chunks |-> chunks, tail |-> tail,
                  raised |-> r.raised, value |-> r.value, sentences |-> <<>>]
        /\ UNCHANGED <<settings, env, client, ai_disabled, ai_calls, est_cost,
                       authRejected, credFailed, last, db, tobs, run, th>>

\* a call _split_sentences(text)
SplitSentencesCall ==
    \E head \in Heads, chunks \in ChunkSeqs, tail \in Tails :
      \E r \in {_split_sentences(TextOf(head, chunks, tail))} :
        /\ tx' = [op |-> "_split_sentences", called |-> TRUE,
                  head |-> head, chunks |-> chunks, tail |-> tail,
                  raised |-> r.raised, value |-> 0, sentences |-> r.sentences]
        /\ UNCHANGED <<settings, env, client, ai_disabled, ai_calls, est_cost,
                       authRejected, credFailed, last, db, tobs, run, th>>

TextNext == ScoreTextCall \/ SplitSentencesCall

TextSpec == TextInit /\ [][TextNext]_vars

-----------------------------------------------------------------------------
(* The message of score_with_ai: _truncate_for_api and the article's part of *)
(* user_message                                                              *)

\* scoring texts and titles
OneWord ==      <<"o", "n", "e">>
TwoWords ==     <<"o", "n", "e", " ", "t", "w", "o">>
TwoSpaced ==    <<"o", "n", "e", " ", " ", "t", "w", "o">>
ThreePadded ==  <<" ", "o", "n", "e", " ", "t", "w", "o", " ", "t", "h", "r", "e", "e", " ">>
FourLines ==    <<"o", "n", "e", "\n", "t", "w", "o", " ", "t", "h", "r", "e", "e", " ", "f", "o", "u", "r">>
FiveWords ==    <<"o", "n", "e", " ", "t", "w", "o", " ", "t", "h", "r", "e", "e", " ", "f", "o", "u", "r", " ", "f", "i", "v", "e">>
Blank ==        <<" ", " ">>
NoTitle ==      <<>>
ShortTitle ==   <<"A", "c", "m", "e">>
LongTitle ==    <<"b", "i", "g", " ", "n", "e", "w", "s", " ", "f", "o", "r", " ", "a", "c", "m", "e">>

MessageArticles ==
    { [title |-> t, content_text |-> c] :
        t \in {NoTitle, ShortTitle, LongTitle},
        c \in {<<>>, OneWord, TwoWords, TwoSpaced, ThreePadded, FourLines, FiveWords, Blank} }

\* values of ai_scoring.max_words
MaxWordsValues == 0..4

\* the scorer's module state before any call, with no settings
IdleScorer ==
    /\ settings = [sentiment |-> NoKeys, ai_scoring |-> NoKeys]
    /\ env = "ok"
    /\ client = FALSE
    /\ ai_disabled = FALSE
    /\ ai_calls = 0
    /\ est_cost = 0
    /\ authRejected = FALSE
    /\ credFailed = FALSE
    /\ last = [op |-> "start", article |-> NoArticle, ctx |-> "none", api |-> NoApi,
               score |-> 0, label |-> "none", method |-> "none",
               raised |-> FALSE, tried |-> FALSE, called |-> FALSE, err |-> "",
               scored |-> FALSE]

MessageInit ==
    /\ IdleScorer
    /\ tx = [op |-> "none"]
    /\ db = EmptyDb
    /\ tobs = NoTobs
    /\ run = NoRun
    /\ th = NoThreads

\* score_with_ai builds the message for an article row and max_words
BuildMessage ==
    \E a \in MessageArticles, max_words \in MaxWordsValues :
      \E r \in {user_message(a, max_words)} :
        /\ tx' = [op |-> "user_message", article |-> a, max_words |-> max_words,
                  sent |-> r.sent, text |-> r.text, title |-> r.title,
                  truncated |-> r.truncated]
        /\ UNCHANGED <<settings, env, client, ai_disabled, ai_calls, est_cost,
                       authRejected, credFailed, last, db, tobs, run, th>>

MessageNext == BuildMessage

MessageSpec == MessageInit /\ [][MessageNext]_vars

-----------------------------------------------------------------------------
(* Tagging of articles: tag_article and storage.update_tag *)

\* the texts of the calls
HeSaidAI ==  <<"H", "e", " ", "s", "a", "i", "d", " ", "A", "I">>
HeSaid ==    <<"h", "e", " ", "s", "a", "i", "d">>
Seashell ==  <<"S", "e", "a", "s", "h", "e", "l", "l", " ", "I", "n", "c", "o", "r", "p", "o", "r", "a", "t", "e", "d">>
AcmeInc ==   <<"A", "c", "m", "e", " ", "I", "n", "c", ".">>
Rain ==      <<"r", "a", "i", "n", ",", " ", "s", "e", "a", "s">>
NoText ==    <<>>
TagTexts == {HeSaidAI, HeSaid, Seashell, AcmeInc, Rain, NoText}

\* The tags table: tag id i is row i.  Tag 1 holds a blank keyword and one
\* with a trailing space; tag 3 belongs to client 2 and tag 4 to client 1;
\* tag 5 is matched by the AI method; tag 6 is disabled.  The table may also
\* be empty.
TagCatalog ==
    << [id |-> 1, name |-> "AI", tag_type |-> "custom", scope |-> "global",
        client_id |-> NoClient, keywords |-> <<<<" ">>, <<"A", "I", " ">>, <<"I", "n", "c">>>>,
        match_method |-> "keyword", enabled |-> TRUE],
       [id |-> 2, name |-> "Energy", tag_type |-> "esg", scope |-> "global",
        client_id |-> NoClient, keywords |-> <<<<"s", "e", "a">>, <<"S", "h", "e", "l", "l">>>>,
        match_method |-> "keyword", enabled |-> TRUE],
       [id |-> 3, name |-> "Rival", tag_type |-> "custom", scope |-> "client",
        client_id |-> 2, keywords |-> <<<<"s", "a", "i", "d">>>>,
        match_method |-> "keyword", enabled |-> TRUE],
       [id |-> 4, name |-> "Mine", tag_type |-> "custom", scope |-> "client",
        client_id |-> 1, keywords |-> <<<<"I", "n", "c">>, <<"A", "c", "m", "e">>>>,
        match_method |-> "keyword", enabled |-> TRUE],
       [id |-> 5, name |-> "Smart", tag_type |-> "esg", scope |-> "global",
        client_id |-> NoClient, keywords |-> <<<<"s", "a", "i", "d">>>>,
        match_method |-> "ai", enabled |-> TRUE],
       [id |-> 6, name |-> "Old", tag_type |-> "esg", scope |-> "global",
        client_id |-> NoClient, keywords |-> <<<<"h", "e">>>>,
        match_method |-> "keyword", enabled |-> FALSE] >>

\* the articles: article 1 of client 1, article 2 of client 2
ArticleClient == <<1, 2>>
ArticleIds == DOMAIN ArticleClient

\* the calls: article 1 with every text, article 2 with one
TagCalls == ({1} \X TagTexts) \cup {<<2, HeSaid>>}

\* the tags that update_tag enables and disables
ToggledTags == {6}

\* the tag that delete_tag deletes
DeletedTags == {6}

TagStart == [op |-> "start", article_id |-> 0, client_id |-> NoClient, text |-> <<>>,
             loaded |-> <<>>, matches |-> <<>>, ret |-> <<>>, repeat |-> FALSE]

TagInit ==
    /\ settings = [sentiment |-> NoKeys, ai_scoring |-> NoKeys]
    /\ env = "ok"
    /\ client = FALSE
    /\ ai_disabled = FALSE
    /\ ai_calls = 0
    /\ est_cost = 0
    /\ authRejected = FALSE
    /\ credFailed = FALSE
    /\ last = [op |-> "start", article |-> NoArticle, ctx |-> "none", api |-> NoApi,
               score |-> 0, label |-> "none", method |-> "none",
               raised |-> FALSE, tried |-> FALSE, called |-> FALSE, err |-> "",
               scored |-> FALSE]
    /\ tx = NoTx
    /\ db \in { [tags |-> t, article_tags |-> {},
                  columns |-> [a \in ArticleIds |-> [esg_tags |-> Null, tags |-> Null]]] :
                t \in {TagCatalog, <<>>} }
    /\ tobs = TagStart
    /\ run = NoRun
    /\ th = NoThreads

\* a call tag_article(conn, article_id, client_id, text) for an article of
\* the client; repeat says that the previous operation was the same call
TagArticle ==
    \E c \in TagCalls :
      \E r \in {tag_article(db, c[1], ArticleClient[c[1]], c[2])} :
        /\ db' = r.db
        /\ tobs' = [op |-> "tag_article", article_id |-> c[1],
                    client_id |-> ArticleClient[c[1]],
                    text |-> c[2], loaded |-> r.loaded, matches |-> r.matches,
                    ret |-> r.ret,
                    repeat |-> (/\ tobs.op = "tag_article"
                                /\ tobs.article_id = c[1] /\ tobs.text = c[2])]
        /\ UNCHANGED <<settings, env, client, ai_disabled, ai_calls, est_cost,
                       authRejected, credFailed, last, tx, run, th>>

\* storage.update_tag(conn, tag_id, enabled=...)
UpdateTag ==
    \E id \in ToggledTags \cap DOMAIN db.tags, enabled \in BOOLEAN :
        /\ db' = [db EXCEPT !.tags[id].enabled = enabled]
        /\ tobs' = [TagStart EXCEPT !.op = "update_tag"]
        /\ UNCHANGED <<settings, env, client, ai_disabled, ai_calls, est_cost,
                       authRejected, credFailed, last, tx, run, th>>

\* storage.delete_tag(conn, tag_id) of the row with the highest id; ON DELETE
\* CASCADE removes the article_tags rows of the tag, the columns of articles
\* are not touched
DeleteTag ==
    \E id \in DeletedTags \cap {Len(db.tags)} :
        /\ db' = [db EXCEPT !.tags = SubSeq(@, 1, id - 1),
                            !.article_tags = { r \in @ : r.tag_id # id }]
        /\ tobs' = [TagStart EXCEPT !.op = "delete_tag"]
        /\ UNCHANGED <<settings, env, client, ai_disabled, ai_calls, est_cost,
                       authRejected, credFailed, last, tx, run, th>>

TagNext == TagArticle \/ UpdateTag \/ DeleteTag

TagSpec == TagInit /\ [][TagNext]_vars

-----------------------------------------------------------------------------
(* The merge of tag_article on the lists that two matching methods return *)

MergeTagIds == {1, 2}
MergeTagName == <<"AI", "Energy">>

\* the match of a tag as a method reports it
MatchOf(tag_id, keyword, confidence, method) ==
    [tag_id |-> tag_id, tag_name |-> MergeTagName[tag_id], tag_type |-> "esg",
     matched_keyword |-> keyword, confidence |-> confidence, match_method |-> method]

\* what match_tags_keyword returns: at most one match per tag, in the order
\* of the tags, with confidence 1.0
KeywordLists ==
    { <<>>, <<MatchOf(1, "AI", 1, "keyword")>>, <<MatchOf(2, "sea", 1, "keyword")>>,
      <<MatchOf(1, "AI", 1, "keyword"), MatchOf(2, "sea", 1, "keyword")>> }

\* confidences that a second method reports: 0 for 0.0, 1 for 1.0, 2 above
Confidences == {0, 1, 2}

\* the longest list of a second method
MaxAiMatches == 2

AiMatch == { MatchOf(t, k, c, "ai") : t \in MergeTagIds, k \in {"x", "y"}, c \in Confidences }

\* what a second method may return: any matches, also two of one tag
AiLists == UNION { [1..n -> AiMatch] : n \in 0..MaxAiMatches }

MergeInit ==
    /\ IdleScorer
    /\ tx = NoTx
    /\ db = EmptyDb
    /\ tobs = NoTobs
    /\ run = NoRun
    /\ th = NoThreads

\* lines 106-114 and 142 of tag_article on the two lists, once
MergeMatches ==
    /\ tobs.op = "none"
    /\ \E matches \in KeywordLists, ai_matches \in AiLists :
      \E all_matches \in {MergeLoop(matches \o ai_matches, 1, <<>>)} :
        /\ tobs' = [op |-> "merge", ms |-> matches \o ai_matches,
                    all_matches |-> all_matches, ret |-> TagNames(all_matches)]
        /\ UNCHANGED <<settings, env, client, ai_disabled, ai_calls, est_cost,
                       authRejected, credFailed, last, tx, db, run, th>>

MergeNext == MergeMatches

MergeSpec == MergeInit /\ [][MergeNext]_vars

-----------------------------------------------------------------------------
(* analyze_unscored: the batch that scores the articles without a score *)

\* the articles table holds articles 1..NumArticles, none scored at first
NumArticles == 3
ScoredIds == 1..NumArticles

\* ORDER BY fetched_at DESC: the article with the highest id is the newest
RECURSIVE NewestFirst(_)
NewestFirst(n) == IF n = 0 THEN <<>> ELSE <<n>> \o NewestFirst(n - 1)

\* LIMIT batch_size
Limit(rows, batch_size) == SubSeq(rows, 1, Min({batch_size, Len(rows)}))

\* values of sentiment.batch_size
BatchSizes == 1..NumArticles

\* a column holds Null or <<value>>
Unscored == [sentiment_score |-> Null, sentiment_label |-> Null,
             score_method |-> Null, analyzed_at |-> Null]

\* results of score_article
ScoreResults ==
    { [sentiment_score |-> 0, sentiment_label |-> "neutral", score_method |-> "vader"],
      [sentiment_score |-> 50000, sentiment_label |-> "positive", score_method |-> "ai"] }

\* what happens to a row inside the try block: json.loads of the industries
\* raises, score_article raises, the UPDATE raises, or none of these
RowOutcomes == {"json_raises", "score_raises", "update_raises", "ok"}

\* the commit after every 50th scored article
CommitEvery == 50

\* SELECT ... WHERE a.sentiment_score IS NULL ORDER BY a.fetched_at DESC LIMIT %s
SelectUnscored(articles, batch_size) ==
    Limit(SelectSeq(NewestFirst(NumArticles),
                    LAMBDA id : articles[id].sentiment_score = Null),
          batch_size)

\* UPDATE articles SET sentiment_score, sentiment_label, score_method,
\* analyzed_at WHERE id = %s
UpdateScore(articles, id, result) ==
    [articles EXCEPT ![id] = [sentiment_score |-> <<result.sentiment_score>>,
                              sentiment_label |-> <<result.sentiment_label>>,
                              score_method |-> <<result.score_method>>,
                              analyzed_at |-> <<"now">>]]

\* the loop stops at the first failure
AfterFailure_Break(rows, i) == Len(rows) + 1

\* except Exception: continue
AfterFailure(rows, i) == i + 1

AnalyzeIdle == [op |-> "idle", rows |-> <<>>, i |-> 1, scored_count |-> 0,
                attempted |-> <<>>, failed |-> {}, results |-> <<>>, ret |-> 0]

\* db.articles is the table as the connection sees it, db.persisted the
\* committed table
AnalyzeInit ==
    /\ IdleScorer
    /\ tx = NoTx
    /\ db = [articles |-> [id \in ScoredIds |-> Unscored],
             persisted |-> [id \in ScoredIds |-> Unscored]]
    /\ tobs = NoTobs
    /\ run = AnalyzeIdle
    /\ th = NoThreads

\* analyze_unscored up to the loop: the rows are selected; with no rows it
\* returns 0
AnalyzeStart ==
    /\ run.op \in {"idle", "returned"}
    /\ \E batch_size \in BatchSizes :
         \E rows \in {SelectUnscored(db.articles, batch_size)} :
           run' = [AnalyzeIdle EXCEPT !.op = IF rows = <<>> THEN "returned" ELSE "loop",
                                      !.rows = rows]
    /\ UNCHANGED <<settings, env, client, ai_disabled, ai_calls, est_cost,
                   authRejected, credFailed, last, tx, db, tobs, th>>

\* one pass of the loop over the rows
AnalyzeRow ==
    /\ run.op = "loop"
    /\ run.i <= Len(run.rows)
    /\ \E outcome \in RowOutcomes, result \in ScoreResults :
         LET id == run.rows[run.i]
         IN  IF outcome = "ok"
               THEN \E articles \in {UpdateScore(db.articles, id, result)} :
                      /\ run' = [run EXCEPT !.i = @ + 1,
                                            !.scored_count = @ + 1,
                                            !.attempted = Append(@, id),
                                            !.results = Append(@, [id |-> id, result |-> result])]
                      /\ db' = [articles |-> articles,
                                persisted |-> IF Mod(run.scored_count + 1, CommitEvery) = 0
                                                THEN articles ELSE db.persisted]
             ELSE /\ run' = [run EXCEPT !.i = AfterFailure(run.rows, run.i),
                                        !.attempted = Append(@, id),
                                        !.failed = @ \cup {id}]
                  /\ db' = db
    /\ UNCHANGED <<settings, env, client, ai_disabled, ai_calls, est_cost,
                   authRejected, credFailed, last, tx, tobs, th>>

\* after the loop: conn.commit() and return scored_count
AnalyzeReturn ==
    /\ run.op = "loop"
    /\ run.i > Len(run.rows)
    /\ run' = [run EXCEPT !.op = "returned", !.ret = run.scored_count]
    /\ db' = [db EXCEPT !.persisted = db.articles]
    /\ UNCHANGED <<settings, env, client, ai_disabled, ai_calls, est_cost,
                   authRejected, credFailed, last, tx, tobs, th>>

AnalyzeNext == AnalyzeStart \/ AnalyzeRow \/ AnalyzeReturn

AnalyzeSpec == AnalyzeInit /\ [][AnalyzeNext]_vars

-----------------------------------------------------------------------------
(* tag_untagged and retag_all: the batches that tag the articles of a client *)

\* the client of the batches
BatchClient == 1

\* the articles table holds articles 1..NumStored of the client
NumStored == 3
StoredIds == 1..NumStored

\* the tags of the batches: the first two of the catalog
BatchCatalog == SubSeq(TagCatalog, 1, 2)

\* rows of the articles table; content_text holds Null or <<text>>.  The
\* first has a title that matches tag 1 and no content, the second matches
\* tag 2, the third matches no tag.
TitleOnlyRow == [title |-> <<"A", "I">>, content_text |-> Null]
MatchingRow ==  [title |-> NoText, content_text |-> <<<<"s", "e", "a">>>>]
PlainRow ==     [title |-> NoText, content_text |-> <<<<"o", "i", "l">>>>]
StoredRows == {TitleOnlyRow, MatchingRow, PlainRow}

\* (title or "") + " " + (content_text or ""), the text that main tags a
\* new article with
FetchText(row) ==
    row.title \o <<" ">> \o (IF row.content_text = Null THEN <<>> ELSE row.content_text[1])

\* conn.commit(): what the connection wrote becomes the persisted state
Committed(d) ==
    [d EXCEPT !.persisted = [article_tags |-> d.article_tags, columns |-> d.columns]]

\* conn.close() at the end of the process: what was not committed is lost
Closed(d) ==
    [d EXCEPT !.article_tags = d.persisted.article_tags, !.columns = d.persisted.columns]

\* tag_article on a connection: with nothing to write it returns before any
\* statement; else it executes the INSERTs and the UPDATE and commits, or the
\* UPDATE raises after the INSERTs were executed
TagOne(d, article_id, client_id, text, update_raises) ==
    CHOOSE out \in
      { IF r.ret = <<>> THEN [db |-> d, ret |-> <<>>, raised |-> FALSE]
        ELSE IF update_raises
          THEN [db |-> [d EXCEPT !.article_tags = r.db.article_tags],
                ret |-> <<>>, raised |-> TRUE]
        ELSE [db |-> Committed(r.db), ret |-> r.ret, raised |-> FALSE] :
          r \in {tag_article(d, article_id, client_id, text)} } : TRUE

RECURSIVE TagRows(_, _, _, _, _)
\* the loop of tag_untagged and of retag_all over the selected ids from
\* position i; failing holds the ids whose UPDATE raises; a row with an empty
\* text is skipped; the result is the tables and tagged_count
TagRows(d, rows, i, failing, tagged_count) ==
    IF i > Len(rows) THEN [db |-> d, tagged_count |-> tagged_count]
    ELSE CHOOSE out \in
           UNION { { TagRows(r.db, rows, i + 1, failing,
                             IF r.ret # <<>> THEN tagged_count + 1 ELSE tagged_count) :
                       r \in {IF text = <<>> THEN [db |-> d, ret |-> <<>>, raised |-> FALSE]
                              ELSE TagOne(d, rows[i], BatchClient, text, rows[i] \in failing)} } :
                   text \in {Strip(FetchText(d.articles[rows[i]]))} } : TRUE

\* SELECT ... LEFT JOIN article_tags ... WHERE a.content_text IS NOT NULL AND
\* at2.id IS NULL ORDER BY a.fetched_at DESC LIMIT %s
SelectUntagged(d, batch_size) ==
    Limit(SelectSeq(NewestFirst(NumStored),
                    LAMBDA id : /\ d.articles[id].content_text # Null
                                /\ ~\E r \in d.article_tags : r.article_id = id),
          batch_size)

\* SELECT ... WHERE client_id = %s AND content_text IS NOT NULL ORDER BY
\* fetched_at DESC LIMIT %s
SelectWithContent(d, batch_size) ==
    Limit(SelectSeq(NewestFirst(NumStored),
                    LAMBDA id : d.articles[id].content_text # Null),
          batch_size)

\* DELETE the article_tags rows of the client's articles, UPDATE articles SET
\* esg_tags = NULL, tags = NULL, commit
ClearTags(d) ==
    Committed([d EXCEPT !.article_tags = {},
                        !.columns = [a \in StoredIds |-> [esg_tags |-> Null, tags |-> Null]]])

\* tag_untagged(conn, client_id, batch_size), then conn.close()
tag_untagged(d, batch_size, failing) ==
    CHOOSE out \in
      UNION { { [db |-> Closed(r.db), rows |-> rows, ret |-> r.tagged_count] :
                  r \in {TagRows(d, rows, 1, failing, 0)} } :
              rows \in {SelectUntagged(d, batch_size)} } : TRUE

\* retag_all(conn, client_id, batch_size), then conn.close()
retag_all(d, batch_size, failing) ==
    CHOOSE out \in
      UNION { UNION { { [db |-> Closed(r.db), rows |-> rows, ret |-> r.tagged_count] :
                          r \in {TagRows(cleared, rows, 1, failing, 0)} } :
                      rows \in {SelectWithContent(cleared, batch_size)} } :
              cleared \in {ClearTags(d)} } : TRUE

RECURSIVE FetchTagged(_, _)
\* the tables after main stored and tagged articles i..NumStored one by one
FetchTagged(d, i) ==
    IF i > NumStored THEN d
    ELSE FetchTagged(TagOne(d, i, BatchClient, FetchText(d.articles[i]), FALSE).db, i + 1)

\* the tables with the given articles and no tag on any of them
Untagged(articles) ==
    [tags |-> BatchCatalog, articles |-> articles, article_tags |-> {},
     columns |-> [a \in StoredIds |-> [esg_tags |-> Null, tags |-> Null]],
     persisted |-> [article_tags |-> {},
                    columns |-> [a \in StoredIds |-> [esg_tags |-> Null, tags |-> Null]]]]

\* runs is the number of runs so far modulo 2
BatchIdle == [op |-> "idle", batch_size |-> 1, rows |-> <<>>, failing |-> {}, ret |-> 0,
              runs |-> 0]

\* The articles were tagged by main when they were fetched, or they were
\* stored before the catalog had tags; batch_size is the same in every run.
BatchInit ==
    /\ IdleScorer
    /\ tx = NoTx
    /\ \E articles \in [StoredIds -> StoredRows] :
         db \in {Untagged(articles), FetchTagged(Untagged(articles), 1)}
    /\ tobs = NoTobs
    /\ \E batch_size \in 1..NumStored : run = [BatchIdle EXCEPT !.batch_size = batch_size]
    /\ th = NoThreads

\* a run of tag_untagged in which the UPDATE of the articles in failing raises
TagUntagged ==
    \E failing \in SUBSET StoredIds :
      \E r \in {tag_untagged(db, run.batch_size, failing)} :
          /\ db' = r.db
          /\ run' = [run EXCEPT !.op = "tag_untagged", !.rows = r.rows,
                                !.failing = failing \cap Range(r.rows), !.ret = r.ret,
                                  !.runs = Mod(@ + 1, 2)]
          /\ UNCHANGED <<settings, env, client, ai_disabled, ai_calls, est_cost,
                         authRejected, credFailed, last, tx, tobs, th>>

\* a run of retag_all in which the UPDATE of the articles in failing raises
RetagAll ==
    \E failing \in SUBSET StoredIds :
      \E r \in {retag_all(db, run.batch_size, failing)} :
          /\ db' = r.db
          /\ run' = [run EXCEPT !.op = "retag_all", !.rows = r.rows,
                                !.failing = failing \cap Range(r.rows), !.ret = r.ret,
                                  !.runs = Mod(@ + 1, 2)]
          /\ UNCHANGED <<settings, env, client, ai_disabled, ai_calls, est_cost,
                         authRejected, credFailed, last, tx, tobs, th>>

BatchNext == TagUntagged \/ RetagAll

BatchSpec == BatchInit /\ [][BatchNext]_vars

\* a run of tag_untagged in which no statement raises
TagUntaggedOk ==
    \E r \in {tag_untagged(db, run.batch_size, {})} :
        /\ db' = r.db
        /\ run' = [run EXCEPT !.op = "tag_untagged", !.rows = r.rows,
                              !.failing = {}, !.ret = r.ret, !.runs = Mod(@ + 1, 2)]
        /\ UNCHANGED <<settings, env, client, ai_disabled, ai_calls, est_cost,
                       authRejected, credFailed, last, tx, tobs, th>>

UntaggedNext == TagUntaggedOk

\* tag_untagged is run again and again
UntaggedFairSpec == BatchInit /\ [][UntaggedNext]_vars /\ WF_vars(TagUntaggedOk)

-----------------------------------------------------------------------------
(* score_with_ai called from two threads: the module has no lock, so the  *)
(* threads interleave at every read and write of the module's globals     *)

Threads == {1, 2}

\* monthly_budget_usd of the threads' settings: the daily cap is the cost of
\* one response with one input and one output token
ThreadSettings == [sentiment |-> NoKeys,
                   ai_scoring |-> [enabled |-> TRUE, monthly_budget_usd |-> 180]]

\* what client.messages.create does for a thread: raise, or respond with a
\* usage of (1, 0) or (1, 1) tokens
ThreadApi ==
    { [kind |-> "RateLimitError", input_tokens |-> 0, output_tokens |-> 0, body |-> NoBody],
      [kind |-> "response", input_tokens |-> 1, output_tokens |-> 0, body |-> NoBody],
      [kind |-> "response", input_tokens |-> 1, output_tokens |-> 1, body |-> NoBody] }

\* A thread is at one of: idle (outside score_with_ai), checked (past the
\* budget check), in_flight (inside client.messages.create), write_calls
\* (between the read and the write of _session_ai_calls += 1), read_cost,
\* write_cost (between the read and the write of _session_estimated_cost +=
\* est_cost).  api is the outcome of its request, tmp the value it read.
IdleThread == [pc |-> "idle", api |-> NoApi, tmp |-> 0]

\* begun counts the calls of score_with_ai of each thread; started_cost is the
\* cost of all requests sent, responses and responded_cost count the
\* responses received and their cost
ThreadInit ==
    /\ IdleScorer
    /\ tx = NoTx
    /\ db = EmptyDb
    /\ tobs = NoTobs
    /\ run = NoRun
    /\ th = [t |-> [i \in Threads |-> IdleThread], begun |-> [i \in Threads |-> 0],
             started_cost |-> 0, responses |-> 0, responded_cost |-> 0]

\* if _ai_disabled: return None; if _session_estimated_cost >= daily_budget:
\* return None
CheckBudget ==
    \E i \in Threads :
        /\ th.t[i].pc = "idle"
        /\ th.begun[i] < MaxCalls
        /\ th' = [th EXCEPT !.begun[i] = @ + 1,
                            !.t[i].pc = IF ai_disabled \/ BudgetReached(est_cost, ThreadSettings)
                                          THEN "idle" ELSE "checked"]
        /\ UNCHANGED <<settings, env, client, ai_disabled, ai_calls, est_cost,
                       authRejected, credFailed, last, tx, db, tobs, run>>

\* client.messages.create(...) is entered: the request is sent
StartCall ==
    \E i \in Threads, api \in ThreadApi :
        /\ th.t[i].pc = "checked"
        /\ th' = [th EXCEPT !.t[i].pc = "in_flight", !.t[i].api = api,
                            !.started_cost = @ + EstCost(api)]
        /\ UNCHANGED <<settings, env, client, ai_disabled, ai_calls, est_cost,
                       authRejected, credFailed, last, tx, db, tobs, run>>

\* client.messages.create raises and the thread returns None, or it returns
\* the response and the thread reads _session_ai_calls
Respond ==
    \E i \in Threads :
        /\ th.t[i].pc = "in_flight"
        /\ th' = IF th.t[i].api.kind = "response"
                   THEN [th EXCEPT !.t[i].pc = "write_calls", !.t[i].tmp = ai_calls,
                                   !.responses = @ + 1,
                                   !.responded_cost = @ + EstCost(th.t[i].api)]
                 ELSE [th EXCEPT !.t[i] = IdleThread]
        /\ UNCHANGED <<settings, env, client, ai_disabled, ai_calls, est_cost,
                       authRejected, credFailed, last, tx, db, tobs, run>>

\* _session_ai_calls += 1: the write
WriteCalls ==
    \E i \in Threads :
        /\ th.t[i].pc = "write_calls"
        /\ ai_calls' = th.t[i].tmp + 1
        /\ th' = [th EXCEPT !.t[i].pc = "read_cost", !.t[i].tmp = 0]
        /\ UNCHANGED <<settings, env, client, ai_disabled, est_cost,
                       authRejected, credFailed, last, tx, db, tobs, run>>

\* _session_estimated_cost += est_cost: the read
ReadCost ==
    \E i \in Threads :
        /\ th.t[i].pc = "read_cost"
        /\ th' = [th EXCEPT !.t[i].pc = "write_cost", !.t[i].tmp = est_cost]
        /\ UNCHANGED <<settings, env, client, ai_disabled, ai_calls, est_cost,
                       authRejected, credFailed, last, tx, db, tobs, run>>

\* _session_estimated_cost += est_cost: the write; the thread then parses the
\* response and returns
WriteCost ==
    \E i \in Threads :
        /\ th.t[i].pc = "write_cost"
        /\ est_cost' = th.t[i].tmp + EstCost(th.t[i].api)
        /\ th' = [th EXCEPT !.t[i] = IdleThread]
        /\ UNCHANGED <<settings, env, client, ai_disabled, ai_calls,
                       authRejected, credFailed, last, tx, db, tobs, run>>

ThreadNext == CheckBudget \/ StartCall \/ Respond \/ WriteCalls \/ ReadCost \/ WriteCost

ThreadSpec == ThreadInit /\ [][ThreadNext]_vars

-----------------------------------------------------------------------------
(* Vocabulary of the claims, stated from the settings and the observation of *)
(* the last operation, independently of the operators above                  *)

PosThreshold ==
    IF "positive_threshold" \in DOMAIN settings.sentiment
      THEN settings.sentiment.positive_threshold ELSE 20000
NegThreshold ==
    IF "negative_threshold" \in DOMAIN settings.sentiment
      THEN settings.sentiment.negative_threshold ELSE -20000

\* the label the thresholds give a score
LabelOf(x) ==
    IF x >= PosThreshold THEN "positive"
    ELSE IF x < NegThreshold THEN "negative"
    ELSE "neutral"

EnabledInSettings ==
    "enabled" \in DOMAIN settings.ai_scoring /\ settings.ai_scoring.enabled

MonthlyBudget ==
    IF "monthly_budget_usd" \in DOMAIN settings.ai_scoring
      THEN settings.ai_scoring.monthly_budget_usd ELSE 12000000

\* spend >= monthly_budget_usd / 30
AtCap(spend) == spend * 30 >= MonthlyBudget

\* the article of observation l has a non-empty scoring text
HasText(l) ==
    \/ l.article.content_text = "text"
    \/ l.article.content_text = "none" /\ l.article.title = "text"

\* the lexical score of the article of observation l lies in the neutral band
InBand(l) == NegThreshold <= l.article.compound /\ l.article.compound < PosThreshold

\* a non-empty client context was supplied
HasContext(l) == l.ctx \notin {"none", "empty"}

\* observation l returned the lexical result of its article with method 'vader'
LexicalResult(l) ==
    /\ ~l.raised
    /\ l.method = "vader"
    /\ IF HasText(l)
         THEN l.score = Round4(l.article.compound) /\ l.label = LabelOf(l.article.compound)
         ELSE l.score = 0 /\ l.label = "neutral"

\* the response text is malformed: not valid JSON, a JSON value with no score
\* field, or a score field whose JSON value is not a number
Malformed(body) ==
    body.kind \in {"invalid_json", "not_object", "no_score", "null", "word_string",
                   "numeric_string", "bool"}

\* the estimated cost of the response of observation l
CostOf(l) == l.api.input_tokens * 1 + l.api.output_tokens * 5

-----------------------------------------------------------------------------
(* C1 *)

\* C1 as stated: for an article with non-empty scoring text, score_article
\* sends a request to the external model if and only if the lexical score is
\* in the neutral band, ai_scoring.enabled is true, a non-empty client context
\* is supplied and the session spend is strictly below monthly_budget_usd/30.
C1_CallIffFourConditions ==
    [][ (last'.op = "score_article" /\ HasText(last'))
          => (last'.called <=>
                (InBand(last') /\ EnabledInSettings /\ HasContext(last')
                 /\ ~AtCap(est_cost))) ]_vars

\* C1 amended: the request is sent if and only if the four conditions hold
\* and, besides, the session's disabled flag is unset, the industries value
\* of the context can be joined (missing or a sequence of strings), the
\* anthropic package is installed and a client exists or ANTHROPIC_API_KEY is
\* set.
C1_CallIffFourConditionsAndUsable ==
    [][ (last'.op = "score_article" /\ HasText(last'))
          => (last'.called <=>
                (/\ InBand(last') /\ EnabledInSettings /\ HasContext(last')
                 /\ ~AtCap(est_cost)
                 /\ ~ai_disabled
                 /\ last'.ctx \in {"strings", "no_industries"}
                 /\ env # "nopkg"
                 /\ (client \/ env = "ok"))) ]_vars

\* score_article sent a request and returned the contextual result
C1_Witness ==
    /\ last.op = "score_article"
    /\ HasText(last)
    /\ last.called
    /\ last.method = "ai"

-----------------------------------------------------------------------------
(* C2 *)

-----------------------------------------------------------------------------
(* C3 *)

LabelProbes == {-ScoreOne, -20001, -20000, -19999, -10001, -10000, 0, 19999, 20000,
                29999, 30000, ScoreOne}

\* C3: score_label returns 'positive' when score >= positive_threshold,
\* otherwise 'negative' when score < negative_threshold, otherwise 'neutral',
\* with 0.2 and -0.2 for absent thresholds; so does the label of every
\* lexical result of score_article.
C3_ScoreLabelRule ==
    /\ \A x \in LabelProbes :
         /\ score_label(x, settings) \in {"positive", "negative", "neutral"}
         /\ score_label(x, settings) = LabelOf(x)
    /\ (last.op = "score_article" /\ HasText(last) /\ last.method = "vader")
         => last.label = LabelOf(last.article.compound)

\* a score equal to the default positive threshold was labelled positive
C3_Witness ==
    /\ "positive_threshold" \notin DOMAIN settings.sentiment
    /\ last.op = "score_article"
    /\ last.method = "vader"
    /\ last.article.compound = 20000
    /\ last.label = "positive"

-----------------------------------------------------------------------------
(* C4 *)

\* C4 as stated: whenever the response of the external model is malformed,
\* score_article returns the lexical score and label with method 'vader'.
C4_MalformedFallsBack ==
    (last.op = "score_article" /\ last.api.kind = "response" /\ Malformed(last.api.body))
      => LexicalResult(last)

-----------------------------------------------------------------------------
(* C5 *)

\* C5 as stated: score_with_ai, given a client context dict (whatever its
\* industries value), never raises to its caller.
C5_NeverRaises ==
    (last.op = "score_with_ai" /\ last.ctx # "none") => ~last.raised

-----------------------------------------------------------------------------
(* C6 *)

\* C6 as stated: after an attempt has failed on the missing credential, no
\* later operation tries to construct a client or sends a request.
C6_MissingCredentialDisables ==
    [][ credFailed => (~last'.tried /\ ~last'.called) ]_vars

-----------------------------------------------------------------------------
(* C7 *)

-----------------------------------------------------------------------------
(* C8 *)

\* the call observed by l failed for this article only: rate limit,
\* connectivity, malformed response, or empty input text
PerCallFailure(l) ==
    \/ l.api.kind \in {"RateLimitError", "APIConnectionError"}
    \/ l.api.kind = "response" /\ Malformed(l.api.body)
    \/ ~HasText(l)

\* C8 as stated: on a per-call failure score_with_ai returns None and leaves
\* the disabled flag as it was.
C8_PerCallFailureOnly ==
    [][ (last'.op = "score_with_ai" /\ last'.ctx # "none" /\ PerCallFailure(last'))
          => (/\ ~last'.raised
              /\ last'.method = "none"
              /\ ai_disabled' = ai_disabled) ]_vars

-----------------------------------------------------------------------------
(* C9 *)

\* C9 as stated: every request sent to the external model adds its estimated
\* cost to the ledger and increments the call counter.
C9_EveryCallCounted ==
    [][ last'.called
          => (ai_calls' = ai_calls + 1 /\ est_cost' = est_cost + CostOf(last')) ]_vars

\* C9 amended: every request that the external model answers with a response
\* adds its estimated cost to the ledger and increments the call counter,
\* whether or not the response parses; a request that ends in an error of the
\* provider leaves the ledger unchanged.
C9_EveryResponseCounted ==
    [][ /\ (last'.api.kind = "response"
              => (ai_calls' = ai_calls + 1 /\ est_cost' = est_cost + CostOf(last')))
        /\ ((last'.called /\ last'.api.kind # "response")
              => (ai_calls' = ai_calls /\ est_cost' = est_cost)) ]_vars

\* a response that did not parse was charged to the ledger
C9_Witness ==
    /\ last.api.kind = "response"
    /\ last.api.body.kind = "invalid_json"
    /\ last.method # "ai"
    /\ ai_calls = 1
    /\ est_cost = CostOf(last)

-----------------------------------------------------------------------------
(* C10 *)

-----------------------------------------------------------------------------
(* C11 *)

\* C11: for an article whose scoring text is empty or whitespace-only,
\* score_article returns score 0.0, label neutral and method 'vader' without
\* raising, without running the lexical scorer, without a request to the
\* external model, and leaves the ledger, the call counter, the client and the
\* disabled flag unchanged.
C11_BlankTextNeutral ==
    [][ (last'.op = "score_article" /\ ~HasText(last'))
          => (/\ last'.score = 0 /\ last'.label = "neutral" /\ last'.method = "vader"
              /\ ~last'.raised /\ ~last'.scored
              /\ ~last'.called /\ ~last'.tried
              /\ ai_calls' = ai_calls /\ est_cost' = est_cost
              /\ ai_disabled' = ai_disabled /\ client' = client) ]_vars

\* a whitespace-only article was scored in a session that has already paid
\* for a call, with AI enabled, a context and spend left
C11_Witness ==
    /\ last.op = "score_article"
    /\ last.article.content_text = "blank"
    /\ EnabledInSettings /\ last.ctx = "strings"
    /\ ai_calls > 0 /\ ~AtCap(est_cost) /\ ~ai_disabled
    /\ last.method = "vader" /\ ~last.scored

-----------------------------------------------------------------------------
(* C12 *)

\* C12 as stated: every result score_article returns carries the label that
\* score_label gives its returned (rounded) score under the thresholds.
C12_LabelOfReturnedScore ==
    (last.op = "score_article" /\ ~last.raised) => last.label = LabelOf(last.score)

-----------------------------------------------------------------------------
(* C13 *)

\* the request of observation l was sent and its response parsed to a score
ParsedToScore(l) ==
    /\ l.called
    /\ l.api.kind = "response"
    /\ l.api.body.kind \in {"number", "numeric_string", "bool"}

\* max(-1.0, min(1.0, x))
ClampedTo1(x) == IF x > 100000 THEN 100000 ELSE IF x < -100000 THEN -100000 ELSE x

\* C13: score_article returns method 'ai' exactly when a request was sent for
\* the article and its response parsed to a score; the result then carries the
\* model's clamped score (rounded to 4 decimals) and the label of the clamped
\* score, and otherwise the lexical score and the lexical label.
C13_AiExactlyWhenParsed ==
    (last.op = "score_article" /\ ~last.raised) =>
        /\ (last.method = "ai") <=> ParsedToScore(last)
        /\ ParsedToScore(last) =>
              /\ last.score = Round4(ClampedTo1(last.api.body.value))
              /\ last.label = LabelOf(ClampedTo1(last.api.body.value))
        /\ ~ParsedToScore(last) => LexicalResult(last)

\* the model answered 2.5 for a neutral-band article and the result is 1.0,
\* positive, 'ai'
C13_Witness ==
    /\ last.op = "score_article"
    /\ ParsedToScore(last)
    /\ last.api.body.value = 250000
    /\ last.article.compound = 0
    /\ last.method = "ai" /\ last.score = 100000 /\ last.label = "positive"

-----------------------------------------------------------------------------
(* C14 *)

\* the text of the last call of score_text
TxText == TextOf(tx.head, tx.chunks, tx.tail)

\* C14 as stated, for score_text: for every non-empty text, those longer than
\* 280 characters that start with whitespace or punctuation included,
\* score_text returns without raising a value in [-1.0, 1.0].
C14_ScoreTextInRange ==
    (tx.op = "score_text" /\ TxText # <<>>) =>
        /\ ~tx.raised
        /\ -100000 <= tx.value /\ tx.value <= 100000

-----------------------------------------------------------------------------
(* C15 *)

\* the sentences of the segmentation that have at least 10 characters
LongSentences(text) ==
    SelectSeq(_split_sentences(text).sentences, LAMBDA x : Len(x) >= 10)

\* the reference of C15
Reference(text) ==
    IF Len(text) <= 280 THEN Compound(text)
    ELSE LET scores == [i \in DOMAIN LongSentences(text) |-> Compound(LongSentences(text)[i])]
             significant == SelectSeq(scores, LAMBDA x : Abs(x) > 5000)
         IN  IF scores = <<>> THEN 0
             ELSE IF significant # <<>> THEN Sum(significant) \div Len(significant)
             ELSE Sum(scores) \div Len(scores)

\* C15 as stated: for every text, score_text returns the value of the
\* reference: the compound of the whole text up to 280 characters; beyond, the
\* mean of the significant scores of the sentences of length >= 10, else the
\* mean of all of them, and 0.0 when no such sentence remains.
C15_ScoreTextEqualsReference ==
    tx.op = "score_text" => (~tx.raised /\ tx.value = Reference(TxText))

-----------------------------------------------------------------------------
(* Vocabulary of the tagging claims, stated from the tables and the          *)
(* observation of the last tagging operation                                 *)

\* str[k] exists and is a letter, a digit or an underscore
IsW(str, k) == k >= 1 /\ k <= Len(str) /\ IsWordChar(str[k])

\* word occurs in str with a word boundary on both sides
WholeWordIn(word, str) ==
    \E i \in 1..Len(str) :
        /\ i + Len(word) - 1 <= Len(str)
        /\ \A k \in 1..Len(word) : str[i + k - 1] = word[k]
        /\ IsW(str, i - 1) # IsW(str, i)
        /\ IsW(str, i + Len(word) - 1) # IsW(str, i + Len(word))

\* word occurs in str
SubstringOf(word, str) ==
    \E i \in 1..Len(str) :
        /\ i + Len(word) - 1 <= Len(str)
        /\ \A k \in 1..Len(word) : str[i + k - 1] = word[k]

\* the rule of the keywords: the lowercased, trimmed keyword is not empty and
\* occurs in the lowercased text, as a whole word when it has at most 3
\* characters and as a substring when it has 4 or more
KeywordHits(keyword, text) ==
    LET k == Strip(Lower(keyword))
    IN  /\ k # <<>>
        /\ IF Len(k) <= 3 THEN WholeWordIn(k, Lower(text)) ELSE SubstringOf(k, Lower(text))

\* the tag is matched by keywords and one of them hits the text
TagHits(tag, text) ==
    /\ tag.match_method = "keyword"
    /\ \E k \in DOMAIN tag.keywords : KeywordHits(tag.keywords[k], text)

\* the tag is enabled and is global or belongs to the client
InCatalogOf(tag, client_id) ==
    /\ tag.enabled
    /\ \/ tag.scope = "global"
       \/ tag.scope = "client" /\ tag.client_id = client_id

\* the ids of the tags matched in observation o
MatchedIds(o) == { o.matches[i].tag_id : i \in DOMAIN o.matches }

-----------------------------------------------------------------------------
(* C16 *)

\* C16: match_tags_keyword returns at most one match per tag of the catalog it
\* is given; a match records the first keyword, in the order of the tag's
\* keyword list, that hits the text, with confidence 1.0; a tag none of whose
\* keywords hits, or whose match_method is not 'keyword', has no match.
C16_OneMatchFirstKeyword ==
    tobs.op = "tag_article" =>
        /\ \A i, j \in DOMAIN tobs.matches :
              i # j => tobs.matches[i].tag_id # tobs.matches[j].tag_id
        /\ \A i \in DOMAIN tobs.matches :
              LET m == tobs.matches[i]
                  tag == db.tags[m.tag_id]
              IN  /\ m.tag_id \in Range(tobs.loaded)
                  /\ m.confidence = 1
                  /\ \E k \in DOMAIN tag.keywords :
                        /\ m.matched_keyword = tag.keywords[k]
                        /\ KeywordHits(tag.keywords[k], tobs.text)
                        /\ \A e \in 1..(k - 1) : ~KeywordHits(tag.keywords[e], tobs.text)
        /\ \A id \in Range(tobs.loaded) :
              ~TagHits(db.tags[id], tobs.text) => id \notin MatchedIds(tobs)

\* "Acme Inc." was matched for client 1: tag 4, whose keywords Inc and Acme
\* both hit, records Inc, and the loaded AI-method tag 5 has no match
C16_Witness ==
    /\ tobs.op = "tag_article"
    /\ tobs.text = AcmeInc /\ tobs.client_id = 1
    /\ \E i \in DOMAIN tobs.matches :
          /\ tobs.matches[i].tag_id = 4
          /\ tobs.matches[i].matched_keyword = <<"I", "n", "c">>
    /\ 5 \in Range(tobs.loaded) /\ 5 \notin MatchedIds(tobs)

-----------------------------------------------------------------------------
(* C17 *)

\* the tags that the call of observation o loaded, in its order
LoadedTags(o) == [i \in DOMAIN o.loaded |-> db.tags[o.loaded[i]]]

\* C17: a keyword-method tag is matched exactly when one of its keywords hits
\* the text under the rule of the keywords: up to 3 characters only as a whole
\* word (word boundary on both sides), from 4 characters as a substring of
\* the lowercased text; and the result for the text is the result for its
\* lowercased form.
C17_ShortWholeWordLongSubstring ==
    tobs.op = "tag_article" =>
        /\ \A id \in Range(tobs.loaded) :
              db.tags[id].match_method = "keyword" =>
                  (id \in MatchedIds(tobs) <=> TagHits(db.tags[id], tobs.text))
        /\ match_tags_keyword(Lower(tobs.text), LoadedTags(tobs)) = tobs.matches

\* "Seashell Incorporated" was matched for client 1: Shell hits inside
\* Seashell (tag 2), Inc does not hit inside Incorporated (tags 1 and 4)
C17_Witness ==
    /\ tobs.op = "tag_article"
    /\ tobs.text = Seashell /\ tobs.client_id = 1
    /\ MatchedIds(tobs) = {2}
    /\ {1, 2, 4} \subseteq Range(tobs.loaded)
    /\ tobs.matches[1].matched_keyword = <<"S", "h", "e", "l", "l">>

-----------------------------------------------------------------------------
(* C18 *)

\* C18: every article_tags row tag_article adds is a row of its article and of
\* a tag that is enabled and global or of the article's client, and every name
\* it returns or writes to the columns esg_tags and tags is the name of such
\* a tag.
C18_OnlyApplicableTags ==
    [][ tobs'.op = "tag_article" =>
          /\ \A r \in db'.article_tags \ db.article_tags :
                /\ r.article_id = tobs'.article_id
                /\ InCatalogOf(db.tags[r.tag_id], tobs'.client_id)
          /\ \A n \in Range(tobs'.ret)
                   \cup (IF db'.columns # db.columns
                           THEN Range(db'.columns[tobs'.article_id].esg_tags)
                                  \cup Range(db'.columns[tobs'.article_id].tags)
                           ELSE {}) :
                \E id \in DOMAIN db.tags :
                    /\ db.tags[id].name = n
                    /\ InCatalogOf(db.tags[id], tobs'.client_id) ]_vars

\* "He said AI" was tagged for article 1 of client 1 with tag 6 disabled: the
\* result is AI alone, although client 2's tag 3 (said) and the disabled tag 6
\* (he) have a keyword in the text
C18_Witness ==
    /\ tobs.op = "tag_article"
    /\ tobs.article_id = 1 /\ tobs.text = HeSaidAI
    /\ tobs.ret = <<"AI">>
    /\ 6 \in DOMAIN db.tags
    /\ ~db.tags[6].enabled
    /\ \E r \in db.article_tags : r.article_id = 1 /\ r.tag_id = 1
    /\ \A r \in db.article_tags : r.article_id = 1 => r.tag_id \notin {3, 6}

-----------------------------------------------------------------------------
(* C19 *)

\* C19: when no tag of the client's catalog hits the text (or the catalog is
\* empty), tag_article returns the empty list and writes nothing: the
\* article_tags rows and the columns esg_tags and tags stay as they were.
C19_NoMatchNoWrite ==
    [][ (/\ tobs'.op = "tag_article"
         /\ \A id \in DOMAIN db.tags :
               InCatalogOf(db.tags[id], tobs'.client_id) => ~TagHits(db.tags[id], tobs'.text))
          => (/\ tobs'.ret = <<>>
              /\ db'.article_tags = db.article_tags
              /\ db'.columns = db.columns) ]_vars

\* an article that carries tags from an earlier text was tagged again with a
\* text that no tag hits: nothing returned, rows and columns still there
C19_Witness ==
    /\ tobs.op = "tag_article"
    /\ tobs.article_id = 1 /\ tobs.text = Rain
    /\ tobs.ret = <<>>
    /\ db.columns[1].tags # Null
    /\ \E r \in db.article_tags : r.article_id = 1

-----------------------------------------------------------------------------
(* C20 *)

\* C20: a second call of tag_article for the same article and text, with the
\* tags table unchanged in between, returns the same set of names and leaves
\* the article_tags rows and the columns as the first call left them.
C20_TaggingIdempotent ==
    [][ (/\ tobs.op = "tag_article" /\ tobs'.op = "tag_article"
         /\ tobs'.article_id = tobs.article_id /\ tobs'.text = tobs.text
         /\ db'.tags = db.tags)
          => (/\ Range(tobs'.ret) = Range(tobs.ret)
              /\ db'.article_tags = db.article_tags
              /\ db'.columns = db.columns) ]_vars

\* "Acme Inc." was tagged twice in a row for article 1, with two tags each time
C20_Witness ==
    /\ tobs.op = "tag_article" /\ tobs.repeat
    /\ tobs.article_id = 1 /\ tobs.text = AcmeInc
    /\ Range(tobs.ret) = {"AI", "Mine"}
    /\ db.columns[1].tags = <<"AI", "Mine">>

-----------------------------------------------------------------------------
(* C29 *)

\* C29: in a session the estimated spend and the call counter never decrease;
\* they change only in an operation whose request to the external model got
\* a response, the counter by exactly 1 and the spend by the cost of that
\* response; operations that send no request leave them unchanged; and the
\* disabled flag, once set, stays set.
C29_LedgerMonotoneFlagSticky ==
    [][ /\ est_cost' >= est_cost
        /\ ai_calls' >= ai_calls
        /\ (est_cost' # est_cost \/ ai_calls' # ai_calls) =>
              /\ last'.called /\ last'.api.kind = "response"
              /\ ai_calls' = ai_calls + 1
              /\ est_cost' = est_cost + CostOf(last')
        /\ ~last'.called => (est_cost' = est_cost /\ ai_calls' = ai_calls)
        /\ ai_disabled => ai_disabled' ]_vars

\* after a paid call and a rejected authentication, a later article was
\* scored lexically with the flag still set and the ledger as it was
C29_Witness ==
    /\ ai_disabled /\ authRejected
    /\ ai_calls > 0 /\ est_cost > 0
    /\ last.op = "score_article" /\ HasText(last) /\ InBand(last) /\ last.ctx = "strings"
    /\ ~last.called /\ last.method = "vader"

-----------------------------------------------------------------------------
(* C28 *)

\* the names of the tags of the given type that the article_tags rows of
\* article a reference
RowNames(a, tag_type) ==
    { db.tags[r.tag_id].name :
        r \in { x \in db.article_tags : /\ x.article_id = a
                                        /\ db.tags[x.tag_id].tag_type = tag_type } }

\* C28 as stated: after any sequence of tagging and tag operations, for every
\* article the names in its esg_tags column are the names of the esg tags its
\* article_tags rows reference, and the names in its tags column those of the
\* custom tags.
C28_ColumnsMirrorRows ==
    \A a \in DOMAIN db.columns :
        /\ Range(db.columns[a].esg_tags) = RowNames(a, "esg")
        /\ Range(db.columns[a].tags) = RowNames(a, "custom")

-----------------------------------------------------------------------------
(* C26 *)

\* the last word of sentence x without its trailing periods, in lower case
\* (an empty str when nothing is left)
FinalWord(x) ==
    IF Kept(RStripDots(x)) = {} THEN <<>> ELSE Lower(LastWord(RStripDots(x)))

\* C26 as stated: _split_sentences emits sentences for its text; every
\* sentence is non-empty and trimmed; a sentence after the first starts with
\* an uppercase letter and follows one that ends with '.', '!' or '?'; no
\* sentence but the last ends with a word of the abbreviation set and a
\* period; and the words of the sentences, in order, are the words of the text.
C26_SplitSentencesContract ==
    tx.op = "_split_sentences" =>
        /\ ~tx.raised
        /\ \A i \in DOMAIN tx.sentences :
              /\ tx.sentences[i] # <<>>
              /\ tx.sentences[i] = Strip(tx.sentences[i])
        /\ \A i \in DOMAIN tx.sentences :
              i > 1 =>
                /\ IsUpper(tx.sentences[i][1])
                /\ tx.sentences[i - 1][Len(tx.sentences[i - 1])] \in {".", "!", "?"}
        /\ \A i \in DOMAIN tx.sentences :
              i < Len(tx.sentences) =>
                ~(/\ tx.sentences[i][Len(tx.sentences[i])] = "."
                  /\ FinalWord(tx.sentences[i]) \in _ABBREVS)
        /\ Split(Join(tx.sentences)) = Split(TxText)

-----------------------------------------------------------------------------
(* C25 *)

\* the words of the scoring text that the truncated text carries: its words,
\* without the ellipsis marker when the text was cut
TextWordsSent ==
    IF Len(Split(tx.text)) <= tx.max_words THEN Split(tx.truncated)
    ELSE Split(SubSeq(tx.truncated, 1, Len(tx.truncated) - 3))

\* _truncate_for_api returns the text unchanged up to max_words words, else
\* the first max_words words joined by single spaces and '...'
TruncateContract ==
    /\ Len(Split(tx.text)) <= tx.max_words => tx.truncated = tx.text
    /\ Len(Split(tx.text)) > tx.max_words =>
          /\ tx.truncated = Join(SubSeq(Split(tx.text), 1, tx.max_words)) \o <<".", ".", ".">>
          /\ Len(TextWordsSent) = tx.max_words

\* C25: _truncate_for_api returns the text unchanged when it has at most
\* max_words words and else its first max_words words joined by single spaces
\* and '...', so the truncated body of the message carries at most max_words
\* words, the first ones of the scoring text.
C25_TruncatedBody ==
    (tx.op = "user_message" /\ tx.sent) =>
        /\ TruncateContract
        /\ Len(TextWordsSent) <= tx.max_words
        /\ TextWordsSent = SubSeq(Split(tx.text), 1, Len(TextWordsSent))

\* a text of five words was cut to two, and the title of four words was sent
\* with it
C25_Witness ==
    /\ tx.op = "user_message" /\ tx.sent
    /\ tx.text = FiveWords /\ tx.max_words = 2
    /\ tx.truncated = <<"o", "n", "e", " ", "t", "w", "o", ".", ".", ".">>
    /\ Len(Split(tx.title)) = 4

-----------------------------------------------------------------------------
(* C24 *)

\* the index in ms of the match that is kept for tag t: the first one of the
\* highest confidence
KeptIndex(ms, t) ==
    Min({ k \in DOMAIN ms :
            /\ ms[k].tag_id = t
            /\ \A j \in DOMAIN ms : ms[j].tag_id = t => ms[j].confidence <= ms[k].confidence })

\* C24: the merged result holds one match per matched tag id, the first one of
\* the highest confidence, and the returned names are one per matched tag id.
C24_MergeOnePerTag ==
    tobs.op = "merge" =>
      LET ms == tobs.ms
          all == tobs.all_matches
      IN  /\ \A i, j \in DOMAIN all : all[i].tag_id = all[j].tag_id => i = j
          /\ { all[i].tag_id : i \in DOMAIN all } = { ms[i].tag_id : i \in DOMAIN ms }
          /\ \A i \in DOMAIN all : all[i] = ms[KeptIndex(ms, all[i].tag_id)]
          /\ Len(tobs.ret) = Cardinality({ ms[i].tag_id : i \in DOMAIN ms })
          /\ \A i \in DOMAIN all : tobs.ret[i] = MergeTagName[all[i].tag_id]

\* tag 1 was matched three times: by keyword, then with a higher confidence,
\* then with the same confidence again; the second match is kept
C24_Witness ==
    /\ tobs.op = "merge"
    /\ Len(tobs.ms) = 3
    /\ \A i \in 1..3 : tobs.ms[i].tag_id = 1
    /\ tobs.ms[2].confidence = 2 /\ tobs.ms[3].confidence = 2
    /\ tobs.ms[2].matched_keyword = "x" /\ tobs.ms[3].matched_keyword = "y"
    /\ tobs.all_matches = <<tobs.ms[2]>>
    /\ tobs.ret = <<"AI">>

-----------------------------------------------------------------------------
(* C22 *)

\* the four fields of a row are all NULL or all written
WrittenTogether(row) ==
    \/ row = Unscored
    \/ /\ row.sentiment_score # Null /\ row.sentiment_label # Null
       /\ row.score_method # Null /\ row.analyzed_at # Null

\* C22: a failure on one row does not stop the batch (every row before the
\* position of the loop was attempted, and the function returns only after the
\* last one), the four fields of a row are written together, and the count
\* returned is the number of rows of the batch that were updated, which are
\* the rows that did not fail.
C22_BatchContinuesAndCounts ==
    /\ \A id \in ScoredIds : WrittenTogether(db.articles[id]) /\ WrittenTogether(db.persisted[id])
    /\ run.op = "loop" => run.attempted = SubSeq(run.rows, 1, Len(run.attempted))
    /\ run.op = "returned" =>
          /\ run.attempted = run.rows
          /\ run.ret = Cardinality({ id \in Range(run.rows) : db.persisted[id] # Unscored })
          /\ \A id \in Range(run.rows) : id \in run.failed <=> db.persisted[id] = Unscored
          /\ \A k \in DOMAIN run.results :
                db.persisted[run.results[k].id].score_method = <<run.results[k].result.score_method>>

\* a batch of two rows returned 1: the first row failed, the second was scored
C22_Witness ==
    /\ run.op = "returned"
    /\ Len(run.rows) = 2
    /\ run.rows[1] \in run.failed
    /\ db.persisted[run.rows[1]] = Unscored
    /\ db.persisted[run.rows[2]].sentiment_label = <<"positive">>
    /\ run.ret = 1

-----------------------------------------------------------------------------
(* C21, C23, C27 *)

\* the ids of the tags of the persisted article_tags rows of an article
PersistedTagIds(id) == { r.tag_id : r \in { x \in db.persisted.article_tags : x.article_id = id } }

\* the ids of the tags of the client whose keywords match the title and
\* content of an article under the catalog
MatchingTagIds(id) ==
    LET ms == match_tags_keyword(FetchText(db.articles[id]),
                                 load_tags_for_client(db.tags, BatchClient))
    IN  { ms[i].tag_id : i \in DOMAIN ms }

\* C21: what is persisted of the tags of an article is nothing or all of it:
\* there is no article with persisted article_tags rows whose columns were not
\* written, also after a later article of the batch committed.
C21_PersistedAtomic ==
    \A id \in StoredIds :
        PersistedTagIds(id) # {} =>
            db.persisted.columns[id] # [esg_tags |-> Null, tags |-> Null]

\* C23: after a retag_all in which nothing failed, every article of the
\* client has exactly the article_tags rows of the matching tags.
C23_RetagAllComplete ==
    (run.op = "retag_all" /\ run.failing = {}) =>
        \A id \in StoredIds : PersistedTagIds(id) = MatchingTagIds(id)

\* C27: under repeated runs of tag_untagged every article with content that
\* matches a tag eventually has its article_tags rows.
C27_EventuallyTagged ==
    \A id \in StoredIds :
        <>(db.articles[id].content_text # Null => PersistedTagIds(id) = MatchingTagIds(id))

-----------------------------------------------------------------------------
(* C30 *)

\* C30: with two threads in score_with_ai, no request is sent when the cost of
\* the requests already sent has reached the daily cap, and once both threads
\* are outside score_with_ai the ledger holds every response and its cost.
C30_LedgerSerialized ==
    [][ /\ \A i \in Threads :
             (th.t[i].pc = "checked" /\ th'.t[i].pc = "in_flight") =>
                 th.started_cost * 30 < ThreadSettings.ai_scoring.monthly_budget_usd
        /\ (\A i \in Threads : th'.t[i].pc = "idle") =>
             /\ ai_calls' = th'.responses
             /\ est_cost' = th'.responded_cost ]_vars

====
